---- MODULE Spec2Model ----
(***************************************************************************)
(* auth-proxy (owings1/auth-proxy, src/src/app.js): a token-authenticating *)
(* role-authorizing HTTP reverse proxy.  The model covers class App: the   *)
(* index builders, getRoute, authenticate, authorize, serve, and the       *)
(* configuration load performed by start() and by the reload timer.        *)
(*                                                                         *)
(* Specifications                                                          *)
(*  - Spec: requests against the loaded configuration, each load running   *)
(*    from its call to its end;                                            *)
(*  - SpecRoute, SpecAuthz, SpecIndex, SpecValidate, SpecDefaults:        *)
(*    getRoute, authorize, the index builders, the validators and          *)
(*    App.defaults over drawn inputs;                                      *)
(*  - SpecReload: start(), close(), the timer and reloadConfig() stepped   *)
(*    from await to await, with rewritten files and I/O errors;            *)
(*  - SpecForward: requests, the counters and the callbacks of the         *)
(*    forwarder, with the reload timer and rewritten files in between;     *)
(*  - SpecLoad: one load of drawn documents, null and incomplete ones      *)
(*    included;                                                            *)
(*  - SpecGrants: reloads of roles and users documents that are edited by  *)
(*    adding, repeating and reordering grants and roles;                   *)
(*  - SpecInterval: start() after construction from a drawn environment,   *)
(*    for the delay of the reload timer.                                   *)
(*                                                                         *)
(* Encoding of JavaScript values                                           *)
(*  - a string that is matched by a regular expression (a URL, a Host      *)
(*    header) is a sequence of one-character strings;                      *)
(*  - every other string (token, user name, resource, method) is a string; *)
(*  - a plain object is a function whose DOMAIN is the set of its own      *)
(*    keys; an optional field is a key that may be missing from DOMAIN;    *)
(*  - null is the record Null, a non-null field value v is Some(v);        *)
(*  - undefined, where a string is expected, is the value Undefined.       *)
(***************************************************************************)
EXTENDS Integers, Sequences, FiniteSets, TLC

VARIABLES
    routes, users, roles, tokens,           \* this.routes .. this.tokens
    tokenIndex, roleIndex, userIndex, grantIndex,
    lastReloadTime, lastReloadMTime,        \* 0 models null
    reloadInterval, isReloading,
    listening,                              \* httpServer.listen() was called
    startState,                             \* where start() is
    files, mtimes,                          \* the four configuration files
    last,                                   \* what the last operation did
    timers,                                 \* interval timers that are armed
    metricsListening,                       \* metricsServer.listen() was called
    reloads,                                \* the calls of reloadConfig in progress
    starts,                                 \* calls of start() so far
    faults,                                 \* I/O errors so far
    closed,                                 \* close() was called after the last start()
    published,                              \* what the last publication assigned
    lastOutcome,                            \* how the reload that ended last ended
    proxyRequests,                          \* proxy_requests_total, by labels
    internalErrors,                         \* internal_errors_total{code: 500}
    inflight,                               \* the requests handed to httpProxy.web
    received,                               \* requests received so far
    uncaught,                               \* exceptions no handler caught
    opts                                    \* this.opts

appVars  == <<routes, users, roles, tokens, tokenIndex, roleIndex, userIndex, grantIndex>>
loadVars == <<lastReloadTime, lastReloadMTime, reloadInterval, isReloading, listening, startState>>
fsVars   == <<files, mtimes>>
srvVars  == <<timers, metricsListening>>
fwdVars  == <<proxyRequests, internalErrors, inflight, received, uncaught>>
runVars  == <<reloads, starts, faults, closed, published, lastOutcome, fwdVars>>
optVars  == <<opts>>
vars     == <<appVars, loadVars, fsVars, last, srvVars, runVars, optVars>>

----------------------------------------------------------------------------
(* Bounds of the model *)

\* file modifications in one behaviour
MaxTouches == 1
\* length of a routes list drawn for getRoute
MaxRoutes == 2
\* grants of one drawn role
MaxGrants == 1
\* calls of reloadConfig in progress at one time
MaxReloads == 2
\* calls of start() in one behaviour
MaxStarts == 2
\* I/O errors (open, stat, readFile) in one behaviour
MaxFaults == 1
\* length of a record list drawn for an index builder
MaxRecords == 2
\* Requests received in one behaviour, and requests the forwarder holds at a
\* time.
MaxRequests == 3
MaxInflight == 2

----------------------------------------------------------------------------
(* JavaScript values *)

Null == [null |-> TRUE]
Some(v) == [v |-> v]
IsNull(x) == "null" \in DOMAIN x

Undefined == "undefined"

\* Object.prototype.constructor: what {}["constructor"] evaluates to; the
\* string is also what the function coerces to when it is used as a key.
ObjectConstructor == "function Object() { [native code] }"

\* Keys every object literal inherits from Object.prototype.
ObjectPrototypeKeys == {"constructor"}

\* obj[key] on an object literal: an own key, else an inherited one, else
\* undefined.
Get(obj, key) ==
    IF key \in DOMAIN obj THEN obj[key]
    ELSE IF key \in ObjectPrototypeKeys THEN ObjectConstructor
    ELSE Undefined

\* key in obj
In(key, obj) == key \in DOMAIN obj \/ key \in ObjectPrototypeKeys

\* !!v for a string or undefined
Truthy(v) == v # Undefined /\ v # ""

\* array.indexOf(x), zero-based, -1 when absent
IndexOf(arr, x) ==
    IF \E i \in 1..Len(arr) : arr[i] = x
    THEN (CHOOSE i \in 1..Len(arr) : arr[i] = x /\ \A j \in 1..(i-1) : arr[j] # x) - 1
    ELSE -1

\* A regular expression /lit/, /^lit/, /lit$/ or /^lit$/ over a literal.
Regex(lit, start, end) == [lit |-> lit, start |-> start, end |-> end]

\* new RegExp(pattern).test(str): some occurrence of the literal at an
\* offset the anchors allow.
RegExpTest(pattern, str) ==
    \E i \in 0..(Len(str) - Len(pattern.lit)) :
        /\ SubSeq(str, i + 1, i + Len(pattern.lit)) = pattern.lit
        /\ (pattern.start => i = 0)
        /\ (pattern.end => i + Len(pattern.lit) = Len(str))

\* str.match(new RegExp(pattern)): the match array, <<>> modelling null.
StrMatch(str, pattern) ==
    IF RegExpTest(pattern, str) THEN <<pattern.lit>> ELSE <<>>

SeqsUpTo(S, n) == UNION {[1..k -> S] : k \in 0..n}

\* The outcome of a call: a returned value or a thrown error.
Ok(v) == [ok |-> TRUE, value |-> v]
Throw(e) == [ok |-> FALSE, error |-> e]

EmptyObject == [k \in {} |-> Undefined]
Put(obj, key, v) == [k \in DOMAIN obj \cup {key} |-> IF k = key THEN v ELSE obj[k]]

Max(S) == CHOOSE m \in S : \A x \in S : x <= m
Min(S) == CHOOSE m \in S : \A x \in S : m <= x

----------------------------------------------------------------------------
(* App.defaults(env) *)

\* A number: NaN, or the integer n.
NaN == [nan |-> TRUE]
Num(n) == [n |-> n]

DecimalDigits == <<"0", "1", "2", "3", "4", "5", "6", "7", "8", "9">>

\* How the environment spells the port number p: its decimal digits.
RECURSIVE Decimal(_)
Decimal(p) ==
    IF p < 10 THEN <<DecimalDigits[p + 1]>>
    ELSE Append(Decimal(p \div 10), DecimalDigits[(p % 10) + 1])

\* The value of a string of decimal digits, read from character i on.
RECURSIVE StringToNumberFrom(_, _, _)
StringToNumberFrom(str, i, acc) ==
    IF i > Len(str) THEN acc
    ELSE StringToNumberFrom(str, i + 1, acc * 10 + IndexOf(DecimalDigits, str[i]))

\* +env[name]: NaN for a variable that is not set (undefined), else the
\* number its digits spell.
UnaryPlus(env, name) ==
    IF name \in DOMAIN env THEN Num(StringToNumberFrom(env[name], 1, 0)) ELSE NaN

\* The 32-bit integer an operand of | is converted to (the numbers drawn
\* are below 2^31).
ToInt32(x) == IF x = NaN THEN 0 ELSE x.n

\* a | b on non-negative integers
RECURSIVE BitOr(_, _)
BitOr(a, b) ==
    IF a = 0 THEN b
    ELSE IF b = 0 THEN a
    ELSE (IF a % 2 = 1 \/ b % 2 = 1 THEN 1 ELSE 0) + 2 * BitOr(a \div 2, b \div 2)

\* x || d for a number x: d when x is NaN or 0
LogicalOr(x, d) == IF x = NaN THEN d ELSE IF x.n = 0 THEN d ELSE x.n

DefaultPort == 8080
DefaultMetricsPort == 8181

DefaultReloadIntervalMs == 15000

\* A number of milliseconds: hi * 2^16 + lo, so that the numbers beyond
\* 2^31 - 1, which a timer does not keep, can be written.
Ms(n) == [hi |-> n \div 2^16, lo |-> n % 2^16]

\* a < b for two numbers of milliseconds
MsLess(a, b) == a.hi < b.hi \/ (a.hi = b.hi /\ a.lo < b.lo)

\* The number of milliseconds a string of decimal digits spells, read from
\* character i on.
RECURSIVE StringToMsFrom(_, _, _)
StringToMsFrom(str, i, acc) ==
    IF i > Len(str) THEN acc
    ELSE LET low == acc.lo * 10 + IndexOf(DecimalDigits, str[i])
         IN  StringToMsFrom(str, i + 1,
                            [hi |-> acc.hi * 10 + low \div 2^16, lo |-> low % 2^16])

\* Math.max(a, b)
MathMax(a, b) == IF MsLess(a, b) THEN b ELSE a

\* x || d for a number of milliseconds x that is not NaN
MsOr(x, d) == IF x = Ms(0) THEN d ELSE x

\* The delay a timer created by setInterval(callback, delay) has: a delay
\* below 1 or beyond 2^31 - 1 is replaced by 1.
setInterval(delay) ==
    IF MsLess(delay, Ms(1)) \/ MsLess([hi |-> 2^15 - 1, lo |-> 2^16 - 1], delay)
    THEN Ms(1)
    ELSE delay

\* The numbers of the options App.defaults(env) returns.
defaults(env) ==
    [reloadIntervalMs |-> IF "RELOAD_INTERVAL_MS" \in DOMAIN env
                          THEN MsOr(StringToMsFrom(env["RELOAD_INTERVAL_MS"], 1, Ms(0)),
                                    Ms(0))
                          ELSE Ms(DefaultReloadIntervalMs),
     port |-> LogicalOr(UnaryPlus(env, "HTTP_PORT"), DefaultPort),
     metricsPort |-> BitOr(ToInt32(UnaryPlus(env, "METRICS_PORT")), DefaultMetricsPort)]

----------------------------------------------------------------------------
(* Configuration (this.opts) *)

\* opts.authHeaders: AUTH_HEADERS split on commas, lowercased, in order
authHeaders == <<"x-authorization", "x-token">>

\* opts.reloadIntervalMs
reloadIntervalMs == opts.reloadIntervalMs

----------------------------------------------------------------------------
(* Index builders *)

RECURSIVE getTokenIndexFrom(_, _, _)
getTokenIndexFrom(tokenList, i, index) ==
    IF i > Len(tokenList) THEN Ok(index)
    ELSE IF In(tokenList[i].token, index) THEN Throw("ConfigError")
    ELSE getTokenIndexFrom(tokenList, i + 1,
                           Put(index, tokenList[i].token, tokenList[i].user))

\* {token: userName}
getTokenIndex(tokenList) == getTokenIndexFrom(tokenList, 1, EmptyObject)

RECURSIVE getRoleIndexFrom(_, _, _)
getRoleIndexFrom(roleList, i, index) ==
    IF i > Len(roleList) THEN Ok(index)
    ELSE IF In(roleList[i].name, index) THEN Throw("ConfigError")
    ELSE getRoleIndexFrom(roleList, i + 1, Put(index, roleList[i].name, roleList[i]))

\* {roleName: roleObj}
getRoleIndex(roleList) == getRoleIndexFrom(roleList, 1, EmptyObject)

RECURSIVE getUserIndexFrom(_, _, _)
getUserIndexFrom(userList, i, index) ==
    IF i > Len(userList) THEN Ok(index)
    ELSE IF In(userList[i].name, index) THEN Throw("ConfigError")
    ELSE getUserIndexFrom(userList, i + 1, Put(index, userList[i].name, userList[i]))

\* {userName: userObj}
getUserIndex(userList) == getUserIndexFrom(userList, 1, EmptyObject)

\* user.admin is truthy
IsAdmin(user) == "admin" \in DOMAIN user /\ user.admin

\* for (var method of grant.methods) index[userName][grant.resource][method] = true
RECURSIVE AddMethods(_, _, _)
AddMethods(methodMap, methods, i) ==
    IF i > Len(methods) THEN methodMap
    ELSE AddMethods(methodMap \cup {methods[i]}, methods, i + 1)

\* A grant that replaces what the user had on the resource
AddGrantReplacing(resourceMap, grant) ==
    Put(resourceMap, grant.resource,
        IF "methods" \in DOMAIN grant
        THEN AddMethods({}, grant.methods, 1)
        ELSE {"*"})

\* One grant folded into a user's {resource: {method: true}}; the inner map
\* is the set of its keys.  A grant without methods sets the key '*'.
AddGrant(resourceMap, grant) ==
    LET had == IF grant.resource \in DOMAIN resourceMap
               THEN resourceMap[grant.resource] ELSE {}
    IN  Put(resourceMap, grant.resource,
            IF "methods" \in DOMAIN grant
            THEN AddMethods(had, grant.methods, 1)
            ELSE had \cup {"*"})

RECURSIVE AddGrants(_, _, _)
AddGrants(resourceMap, grants, i) ==
    IF i > Len(grants) THEN resourceMap
    ELSE AddGrants(AddGrant(resourceMap, grants[i]), grants, i + 1)

\* for (var roleName of user.roles): a name that is no key of roleIndex
\* contributes nothing.
RECURSIVE AddRoles(_, _, _, _)
AddRoles(resourceMap, roleNames, i, rIndex) ==
    IF i > Len(roleNames) THEN resourceMap
    ELSE AddRoles(IF roleNames[i] \in DOMAIN rIndex
                  THEN AddGrants(resourceMap, rIndex[roleNames[i]].grants, 1)
                  ELSE resourceMap,
                  roleNames, i + 1, rIndex)

\* roleIndex[roleName] is a value without grants: the name is no key of
\* the index itself but one it inherits, whose value is truthy.
InheritedRole(roleName, rIndex) ==
    roleName \notin DOMAIN rIndex /\ Truthy(Get(rIndex, roleName))

\* {userName: {resource: {method: true}}}, for the users that are not admin.
\* Iterating user.roles of a user record without roles throws a TypeError,
\* and so does iterating role.grants of an inherited value.
getGrantIndex(uIndex, rIndex) ==
    LET plain == {u \in DOMAIN uIndex : ~IsAdmin(uIndex[u])}
    IN  IF \E u \in plain : "roles" \notin DOMAIN uIndex[u]
        THEN Throw("TypeError")
        ELSE IF \E u \in plain : \E i \in 1..Len(uIndex[u].roles) :
                    InheritedRole(uIndex[u].roles[i], rIndex)
        THEN Throw("TypeError")
        ELSE Ok([u \in plain |-> AddRoles(EmptyObject, uIndex[u].roles, 1, rIndex)])

----------------------------------------------------------------------------
(* Request handling *)

\* authenticate(req), from header i of authHeaders on: the first configured
\* header that is a key of req.headers decides.
RECURSIVE authenticateFrom(_, _)
authenticateFrom(req, i) ==
    IF i > Len(authHeaders) THEN Undefined
    ELSE IF authHeaders[i] \in DOMAIN req.headers
    THEN IF Truthy(req.headers[authHeaders[i]])
         THEN Get(tokenIndex.v, req.headers[authHeaders[i]])
         ELSE Undefined
    ELSE authenticateFrom(req, i + 1)

authenticate(req) == authenticateFrom(req, 1)

\* authorize as it was before the grant index: a scan of the grants of the
\* user's roles.
authorizeByScan(user, resource, method) ==
    IF user \notin DOMAIN userIndex.v THEN FALSE
    ELSE \E i \in 1..Len(userIndex.v[user].roles) :
            LET roleName == userIndex.v[user].roles[i]
            IN  /\ roleName \in DOMAIN roleIndex.v
                /\ \E k \in 1..Len(roleIndex.v[roleName].grants) :
                       LET grant == roleIndex.v[roleName].grants[k]
                       IN  /\ grant.resource = resource
                           /\ \/ "methods" \notin DOMAIN grant
                              \/ IndexOf(grant.methods, method) > -1

\* authorize without the admin short-circuit
authorizeNoAdmin(user, resource, method) ==
    IF user \notin DOMAIN grantIndex.v THEN FALSE
    ELSE IF resource \notin DOMAIN grantIndex.v[user] THEN FALSE
    ELSE IF "*" \in grantIndex.v[user][resource] THEN TRUE
    ELSE method \in grantIndex.v[user][resource]

\* authorize with a user that has no grants allowed instead of denied.
authorizeUnknownAllowed(user, resource, method) ==
    IF user \in DOMAIN userIndex.v /\ IsAdmin(userIndex.v[user]) THEN TRUE
    ELSE IF user \notin DOMAIN grantIndex.v THEN TRUE
    ELSE IF resource \notin DOMAIN grantIndex.v[user] THEN FALSE
    ELSE IF "*" \in grantIndex.v[user][resource] THEN TRUE
    ELSE method \in grantIndex.v[user][resource]

\* authorize(user, resource, method).  user is whatever authenticate
\* returned; a value that is no own key of userIndex or grantIndex is
\* denied (an inherited key leads to an object without '*' or method keys).
authorize(user, resource, method) ==
    IF user \in DOMAIN userIndex.v /\ IsAdmin(userIndex.v[user]) THEN TRUE
    ELSE IF user \notin DOMAIN grantIndex.v THEN FALSE
    ELSE IF resource \notin DOMAIN grantIndex.v[user] THEN FALSE
    ELSE IF "*" \in grantIndex.v[user][resource] THEN TRUE
    ELSE method \in grantIndex.v[user][resource]

NoRoute == [found |-> FALSE]

\* The loop of getRoute from route i on.
RECURSIVE getRouteFrom(_, _, _, _)
getRouteFrom(i, method, path, host) ==
    IF i > Len(routes.v) THEN NoRoute
    ELSE LET route == routes.v[i]
             isMethodMatch == \/ "methods" \notin DOMAIN route
                              \/ IndexOf(route.methods, method) > -1
             isHostMatch == \/ "hosts" \notin DOMAIN route
                            \/ \E k \in 1..Len(route.hosts) :
                                   RegExpTest(route.hosts[k], host)
         IN  IF ~isMethodMatch THEN getRouteFrom(i + 1, method, path, host)
             ELSE IF ~isHostMatch THEN getRouteFrom(i + 1, method, path, host)
             ELSE IF StrMatch(path, route.path) # <<>>
             THEN [found |-> TRUE, route |-> route, index |-> i,
                   matches |-> StrMatch(path, route.path)]
             ELSE getRouteFrom(i + 1, method, path, host)

\* getRoute returning the last route that matches instead of the first
RECURSIVE getRouteLastFrom(_, _, _, _)
getRouteLastFrom(i, method, path, host) ==
    IF i < 1 THEN NoRoute
    ELSE LET route == routes.v[i]
             isMethodMatch == \/ "methods" \notin DOMAIN route
                              \/ IndexOf(route.methods, method) > -1
             isHostMatch == \/ "hosts" \notin DOMAIN route
                            \/ \E k \in 1..Len(route.hosts) :
                                   RegExpTest(route.hosts[k], host)
         IN  IF isMethodMatch /\ isHostMatch /\ StrMatch(path, route.path) # <<>>
             THEN [found |-> TRUE, route |-> route, index |-> i,
                   matches |-> StrMatch(path, route.path)]
             ELSE getRouteLastFrom(i - 1, method, path, host)

getRouteLast(method, path, host) ==
    getRouteLastFrom(Len(routes.v), method, path, IF host = <<>> THEN <<>> ELSE host[1])

\* getRoute giving up at the first route whose hosts do not match
RECURSIVE getRouteHostBreakFrom(_, _, _, _)
getRouteHostBreakFrom(i, method, path, host) ==
    IF i > Len(routes.v) THEN NoRoute
    ELSE LET route == routes.v[i]
             isMethodMatch == \/ "methods" \notin DOMAIN route
                              \/ IndexOf(route.methods, method) > -1
             isHostMatch == \/ "hosts" \notin DOMAIN route
                            \/ \E k \in 1..Len(route.hosts) :
                                   RegExpTest(route.hosts[k], host)
         IN  IF ~isMethodMatch THEN getRouteHostBreakFrom(i + 1, method, path, host)
             ELSE IF ~isHostMatch THEN NoRoute
             ELSE IF StrMatch(path, route.path) # <<>>
             THEN [found |-> TRUE, route |-> route, index |-> i,
                   matches |-> StrMatch(path, route.path)]
             ELSE getRouteHostBreakFrom(i + 1, method, path, host)

getRouteHostBreak(method, path, host) ==
    getRouteHostBreakFrom(1, method, path, IF host = <<>> THEN <<>> ELSE host[1])

\* getRoute(method, path, host).  host is req.headers.host: <<h>> for a
\* string h, <<>> for undefined, which is replaced by the empty string.
getRoute(method, path, host) ==
    getRouteFrom(1, method, path, IF host = <<>> THEN <<>> ELSE host[1])

\* req.headers.host as getRoute receives it
HostOf(req) == IF "host" \in DOMAIN req.headers THEN <<req.headers["host"]>> ELSE <<>>

\* What serve(req) does, with the calls it makes in order.  status 0: serve
\* wrote no response and handed the request to httpProxy.web.
Outcome(status, calls, resource, user, target) ==
    [status |-> status, calls |-> calls, resource |-> resource,
     user |-> user, target |-> target]

\* serve with the result of authorize ignored
serveSkipAuthorize(req) ==
    LET routeInfo == getRoute(req.method, req.url, HostOf(req))
    IN  IF ~routeInfo.found
        THEN Outcome(404, <<"getRoute">>, Undefined, Undefined, Undefined)
        ELSE LET route == routeInfo.route
             IN  IF "anonymous" \in DOMAIN route /\ route.anonymous
                 THEN Outcome(0, <<"getRoute", "web">>, route.resource,
                              "anonymous", route.proxy.target)
                 ELSE LET user == authenticate(req)
                      IN  IF ~Truthy(user)
                          THEN Outcome(401, <<"getRoute", "authenticate">>,
                                       route.resource, user, Undefined)
                          ELSE Outcome(0, <<"getRoute", "authenticate", "authorize", "web">>,
                                       route.resource, user, route.proxy.target)

\* serve authenticating before it looks for a route
serveAuthenticateFirst(req) ==
    LET routeInfo == getRoute(req.method, req.url, HostOf(req))
        user == authenticate(req)
    IN  IF ~Truthy(user)
        THEN Outcome(401, <<"authenticate">>, Undefined, user, Undefined)
        ELSE IF ~routeInfo.found
        THEN Outcome(404, <<"authenticate", "getRoute">>, Undefined, Undefined, Undefined)
        ELSE IF ~authorize(user, routeInfo.route.resource, req.method)
        THEN Outcome(403, <<"authenticate", "getRoute", "authorize">>,
                     routeInfo.route.resource, user, Undefined)
        ELSE Outcome(0, <<"authenticate", "getRoute", "authorize", "web">>,
                     routeInfo.route.resource, user, routeInfo.route.proxy.target)

\* serve answering a denied request like an unauthenticated one
serveDenyAs401(req) ==
    LET routeInfo == getRoute(req.method, req.url, HostOf(req))
    IN  IF ~routeInfo.found
        THEN Outcome(404, <<"getRoute">>, Undefined, Undefined, Undefined)
        ELSE LET route == routeInfo.route
             IN  IF "anonymous" \in DOMAIN route /\ route.anonymous
                 THEN Outcome(0, <<"getRoute", "web">>, route.resource,
                              "anonymous", route.proxy.target)
                 ELSE LET user == authenticate(req)
                      IN  IF ~Truthy(user) \/ ~authorize(user, route.resource, req.method)
                          THEN Outcome(401, <<"getRoute", "authenticate", "authorize">>,
                                       route.resource, user, Undefined)
                          ELSE Outcome(0, <<"getRoute", "authenticate", "authorize", "web">>,
                                       route.resource, user, route.proxy.target)

\* serve without the anonymous branch
serveNoAnonymous(req) ==
    LET routeInfo == getRoute(req.method, req.url, HostOf(req))
    IN  IF ~routeInfo.found
        THEN Outcome(404, <<"getRoute">>, Undefined, Undefined, Undefined)
        ELSE LET route == routeInfo.route
                 user == authenticate(req)
             IN  IF ~Truthy(user)
                 THEN Outcome(401, <<"getRoute", "authenticate">>,
                              route.resource, user, Undefined)
                 ELSE IF ~authorize(user, route.resource, req.method)
                 THEN Outcome(403, <<"getRoute", "authenticate", "authorize">>,
                              route.resource, user, Undefined)
                 ELSE Outcome(0, <<"getRoute", "authenticate", "authorize", "web">>,
                              route.resource, user, route.proxy.target)

serve(req) ==
    LET routeInfo == getRoute(req.method, req.url, HostOf(req))
    IN  IF ~routeInfo.found
        THEN Outcome(404, <<"getRoute">>, Undefined, Undefined, Undefined)
        ELSE LET route == routeInfo.route
             IN  IF "anonymous" \in DOMAIN route /\ route.anonymous
                 THEN Outcome(0, <<"getRoute", "web">>, route.resource,
                              "anonymous", route.proxy.target)
                 ELSE LET user == authenticate(req)
                      IN  IF ~Truthy(user)
                          THEN Outcome(401, <<"getRoute", "authenticate">>,
                                       route.resource, user, Undefined)
                          ELSE IF ~authorize(user, route.resource, req.method)
                          THEN Outcome(403, <<"getRoute", "authenticate", "authorize">>,
                                       route.resource, user, Undefined)
                          ELSE Outcome(0, <<"getRoute", "authenticate", "authorize", "web">>,
                                       route.resource, user, route.proxy.target)

\* The createServer wrapper around serve: an exception (iterating
\* this.routes while it is null) is answered 500.
handle(req) ==
    IF IsNull(routes)
    THEN Outcome(500, <<"getRoute">>, Undefined, Undefined, Undefined)
    ELSE serve(req)

----------------------------------------------------------------------------
(* Values as the YAML parser returns them, each with its type: a string    *)
(* (a TLA+ string, or the sequence of its characters when it is the source *)
(* of a regular expression), a number, a boolean, null, an array, an       *)
(* object; JsUndefined is what reading a missing property gives.            *)

JsString(s) == [string |-> s]
JsNumber(n) == [number |-> n]
JsBoolean(b) == [boolean |-> b]
JsArray(a) == [array |-> a]
JsObject(o) == [object |-> o]
JsUndefined == [undefined |-> TRUE]

\* typeof v
typeof(v) ==
    CASE "string" \in DOMAIN v -> "string"
      [] "number" \in DOMAIN v -> "number"
      [] "boolean" \in DOMAIN v -> "boolean"
      [] "undefined" \in DOMAIN v -> "undefined"
      [] OTHER -> "object"

\* Array.isArray(v)
IsArray(v) == "array" \in DOMAIN v

\* typeof v != 'string' || !v.length
NotNonEmptyString(v) == typeof(v) # "string" \/ Len(v.string) = 0

\* v[key]: a TypeError on null and undefined, undefined when v has no such
\* property.
Member(v, key) ==
    IF "null" \in DOMAIN v \/ "undefined" \in DOMAIN v THEN Throw("TypeError")
    ELSE IF "object" \in DOMAIN v /\ key \in DOMAIN v.object THEN Ok(v.object[key])
    ELSE Ok(JsUndefined)

\* key in v, for an object v
HasMember(key, v) == "object" \in DOMAIN v /\ key \in DOMAIN v.object

\* !!v
JsTruthy(v) ==
    CASE "string" \in DOMAIN v -> Len(v.string) > 0
      [] "number" \in DOMAIN v -> v.number # 0
      [] "boolean" \in DOMAIN v -> v.boolean
      [] "undefined" \in DOMAIN v -> FALSE
      [] "null" \in DOMAIN v -> FALSE
      [] OTHER -> TRUE

\* new RegExp(source) for a source made of literal characters, ^ in front,
\* $ at the end and "(": a group that is not closed is a SyntaxError.
RegExpCompile(source) ==
    IF \E i \in 1..Len(source) : source[i] = "(" THEN Throw("SyntaxError")
    ELSE LET start == Len(source) > 0 /\ source[1] = "^"
             first == IF start THEN 2 ELSE 1
             end == Len(source) >= first /\ source[Len(source)] = "$"
         IN  Ok(Regex(SubSeq(source, first, IF end THEN Len(source) - 1 ELSE Len(source)),
                      start, end))

\* The source of which pattern is the compiled form.
RegExpSource(pattern) ==
    (IF pattern.start THEN <<"^">> ELSE <<>>) \o pattern.lit
        \o (IF pattern.end THEN <<"$">> ELSE <<>>)

----------------------------------------------------------------------------
(* Validation: Ok when the validator returns, Throw when it throws          *)

Returns == Ok(TRUE)

\* for (var hostPattern of route.hosts), from element i on
RECURSIVE validateHostsFrom(_, _)
validateHostsFrom(hosts, i) ==
    IF i > Len(hosts) THEN Returns
    ELSE IF NotNonEmptyString(hosts[i]) THEN Throw("ConfigError")
    ELSE IF ~RegExpCompile(hosts[i].string).ok THEN Throw("ConfigError")
    ELSE validateHostsFrom(hosts, i + 1)

validateRoute(route) ==
    LET path == Member(route, "path") IN
    IF ~path.ok THEN path
    ELSE IF NotNonEmptyString(path.value) THEN Throw("ConfigError")
    ELSE IF ~RegExpCompile(path.value.string).ok THEN Throw("ConfigError")
    ELSE LET proxy == Member(route, "proxy").value IN
    IF typeof(proxy) # "object" \/ IsArray(proxy) THEN Throw("ConfigError")
    ELSE LET target == Member(proxy, "target") IN
    IF ~target.ok THEN target
    ELSE IF NotNonEmptyString(target.value) THEN Throw("ConfigError")
    ELSE IF ~HasMember("hosts", route) THEN Returns
    ELSE IF ~IsArray(route.object.hosts) THEN Throw("ConfigError")
    ELSE validateHostsFrom(route.object.hosts.array, 1)

validateToken(token) ==
    LET value == Member(token, "token") IN
    IF ~value.ok THEN value
    ELSE IF NotNonEmptyString(value.value) THEN Throw("ConfigError")
    ELSE IF NotNonEmptyString(Member(token, "user").value) THEN Throw("ConfigError")
    ELSE Returns

validateUser(user) ==
    LET name == Member(user, "name") IN
    IF ~name.ok THEN name
    ELSE IF NotNonEmptyString(name.value) THEN Throw("ConfigError")
    ELSE IF HasMember("roles", user) /\ ~IsArray(user.object.roles) THEN Throw("ConfigError")
    ELSE IF /\ HasMember("roles", user)
            /\ \E k \in 1..Len(user.object.roles.array) :
                  NotNonEmptyString(user.object.roles.array[k])
    THEN Throw("ConfigError")
    ELSE IF HasMember("admin", user) /\ typeof(user.object.admin) # "boolean"
    THEN Throw("ConfigError")
    ELSE Returns

\* for (var grant of role.grants), from element i on
RECURSIVE validateGrantsFrom(_, _)
validateGrantsFrom(grants, i) ==
    IF i > Len(grants) THEN Returns
    ELSE LET resource == Member(grants[i], "resource") IN
    IF ~resource.ok THEN resource
    ELSE IF NotNonEmptyString(resource.value) THEN Throw("ConfigError")
    ELSE LET methods == Member(grants[i], "methods").value IN
    IF JsTruthy(methods) /\ (typeof(methods) # "object" \/ ~IsArray(methods))
    THEN Throw("ConfigError")
    ELSE validateGrantsFrom(grants, i + 1)

validateRole(role) ==
    LET name == Member(role, "name") IN
    IF ~name.ok THEN name
    ELSE IF NotNonEmptyString(name.value) THEN Throw("ConfigError")
    ELSE LET grants == Member(role, "grants").value IN
    IF typeof(grants) # "object" \/ ~IsArray(grants) THEN Throw("ConfigError")
    ELSE validateGrantsFrom(grants.array, 1)

\* The records of the documents below as the parser returns them: the
\* fields the validators read with their types, a pattern as its source; a
\* record or a field that is null in the document is null.
JsStrings(list) == JsArray([i \in 1..Len(list) |-> JsString(list[i])])

JsPatterns(list) == JsArray([i \in 1..Len(list) |-> JsString(RegExpSource(list[i]))])

JsRoute(route) ==
    IF IsNull(route) THEN Null
    ELSE JsObject([k \in DOMAIN route \cap {"path", "proxy", "hosts"} |->
                CASE k = "path" -> JsString(RegExpSource(route.path))
                  [] k = "proxy" ->
                        IF IsNull(route.proxy) THEN Null
                        ELSE JsObject([j \in DOMAIN route.proxy |->
                                          JsString(route.proxy[j])])
                  [] k = "hosts" -> JsPatterns(route.hosts)])

JsToken(token) ==
    IF IsNull(token) THEN Null
    ELSE JsObject([k \in DOMAIN token |-> JsString(token[k])])

JsUser(user) ==
    IF IsNull(user) THEN Null
    ELSE JsObject([k \in DOMAIN user \cap {"name", "roles", "admin"} |->
                CASE k = "name" -> JsString(user.name)
                  [] k = "roles" -> JsStrings(user.roles)
                  [] k = "admin" -> JsBoolean(user.admin)])

JsGrant(grant) ==
    IF IsNull(grant) THEN Null
    ELSE JsObject([k \in DOMAIN grant \cap {"resource", "methods"} |->
                CASE k = "resource" -> JsString(grant.resource)
                  [] k = "methods" -> JsStrings(grant.methods)])

JsRole(role) ==
    IF IsNull(role) THEN Null
    ELSE JsObject([k \in DOMAIN role \cap {"name", "grants"} |->
                CASE k = "name" -> JsString(role.name)
                  [] k = "grants" ->
                        JsArray([i \in 1..Len(role.grants) |-> JsGrant(role.grants[i])])])

\* The first error list.forEach(validate) throws: results holds what the
\* validator does with each record, in order.
FirstThrown(results) ==
    results[Min({k \in 1..Len(results) : ~results[k].ok})]

\* list.forEach(validate) returns.
AllReturn(results) == \A k \in 1..Len(results) : results[k].ok

\* !obj[key] || !Array.isArray(obj[key]) for a parsed document obj: reading
\* a property of null (what an empty document parses to) is a TypeError, a
\* document without the key fails the test.
wrapper(doc, key) ==
    IF IsNull(doc) THEN Throw("TypeError")
    ELSE IF key \notin DOMAIN doc THEN Throw("ConfigError")
    ELSE Ok(doc[key])

\* The body of the try block of reloadConfig after the mtime gate: parse,
\* check the wrapper key, validate and index each document in turn.  f maps
\* each file to its parsed content.
loadConfig(f) ==
    LET routeList == wrapper(f.routes, "routes") IN
    IF ~routeList.ok THEN routeList
    ELSE LET routeResults == [k \in 1..Len(routeList.value) |->
                                 validateRoute(JsRoute(routeList.value[k]))] IN
    IF ~AllReturn(routeResults) THEN FirstThrown(routeResults)
    ELSE LET userList == wrapper(f.users, "users") IN
    IF ~userList.ok THEN userList
    ELSE LET userResults == [k \in 1..Len(userList.value) |->
                                validateUser(JsUser(userList.value[k]))] IN
    IF ~AllReturn(userResults) THEN FirstThrown(userResults)
    ELSE LET uIndex == getUserIndex(userList.value) IN
    IF ~uIndex.ok THEN uIndex
    ELSE LET roleList == wrapper(f.roles, "roles") IN
    IF ~roleList.ok THEN roleList
    ELSE LET roleResults == [k \in 1..Len(roleList.value) |->
                                validateRole(JsRole(roleList.value[k]))] IN
    IF ~AllReturn(roleResults) THEN FirstThrown(roleResults)
    ELSE LET rIndex == getRoleIndex(roleList.value) IN
    IF ~rIndex.ok THEN rIndex
    ELSE LET tokenList == wrapper(f.tokens, "tokens") IN
    IF ~tokenList.ok THEN tokenList
    ELSE LET tokenResults == [k \in 1..Len(tokenList.value) |->
                                 validateToken(JsToken(tokenList.value[k]))] IN
    IF ~AllReturn(tokenResults) THEN FirstThrown(tokenResults)
    ELSE LET tIndex == getTokenIndex(tokenList.value) IN
    IF ~tIndex.ok THEN tIndex
    ELSE LET gIndex == getGrantIndex(uIndex.value, rIndex.value) IN
    IF ~gIndex.ok THEN gIndex
    ELSE Ok([routes |-> f.routes.routes, users |-> f.users.users,
             roles |-> f.roles.roles, tokens |-> f.tokens.tokens,
             tokenIndex |-> tIndex.value, roleIndex |-> rIndex.value,
             userIndex |-> uIndex.value, grantIndex |-> gIndex.value])

----------------------------------------------------------------------------
(* The configuration documents the files may hold *)

Prefix(lit) == Regex(lit, TRUE, FALSE)
Exact(lit) == Regex(lit, TRUE, TRUE)

\* The routes of the test configuration: /public and /hostroute anonymous,
\* everything else resource api for GET and PUT.
BaseRoutes ==
    <<[path |-> Prefix(<<"/", "p">>), proxy |-> [target |-> "up-public"],
       resource |-> "public", anonymous |-> TRUE],
      [path |-> Prefix(<<"/", "h">>), hosts |-> <<Exact(<<"1">>), Exact(<<"2">>)>>,
       proxy |-> [target |-> "up-host"], resource |-> "hostroute", anonymous |-> TRUE],
      [path |-> Prefix(<<"/">>), methods |-> <<"GET", "PUT">>,
       proxy |-> [target |-> "up-api"], resource |-> "api"]>>

\* The catch-all route first, then /public.
ShadowRoutes ==
    <<[path |-> Prefix(<<"/">>), proxy |-> [target |-> "up-api"], resource |-> "api"],
      [path |-> Prefix(<<"/", "p">>), proxy |-> [target |-> "up-public"],
       resource |-> "public", anonymous |-> TRUE]>>

BaseUsers ==
    <<[name |-> "john", roles |-> <<"reader">>],
      [name |-> "bob", roles |-> <<>>],
      [name |-> "george", roles |-> <<"george-role", "no-such-role">>],
      [name |-> "alice", admin |-> TRUE]>>

\* bob without a roles field
NoRolesUsers ==
    <<[name |-> "john", roles |-> <<"reader">>],
      [name |-> "bob"],
      [name |-> "alice", roles |-> <<>>, admin |-> TRUE]>>

BaseRoles ==
    <<[name |-> "reader", grants |-> <<[resource |-> "api", methods |-> <<"GET">>]>>],
      [name |-> "george-role", grants |-> <<[resource |-> "george"]>>]>>

\* reader may do everything on api
WideRoles ==
    <<[name |-> "reader", grants |-> <<[resource |-> "api"]>>],
      [name |-> "george-role", grants |-> <<[resource |-> "george"]>>]>>

BaseTokens ==
    <<[token |-> "tj", user |-> "john"], [token |-> "tb", user |-> "bob"],
      [token |-> "tg", user |-> "george"], [token |-> "ta", user |-> "alice"]>>

\* john's token replaced, and a token of a user that is not declared
MoreTokens ==
    <<[token |-> "tj2", user |-> "john"], [token |-> "tb", user |-> "bob"],
      [token |-> "tg", user |-> "george"], [token |-> "ta", user |-> "alice"],
      [token |-> "zz", user |-> "jeff"]>>

\* A document whose top-level key is missing
NoKey == [other |-> TRUE]

FileNames == {"routes", "users", "roles", "tokens"}

Documents ==
    [routes |-> {[routes |-> BaseRoutes], [routes |-> ShadowRoutes], NoKey},
     users  |-> {[users |-> BaseUsers], [users |-> NoRolesUsers]},
     roles  |-> {[roles |-> BaseRoles], [roles |-> WideRoles]},
     tokens |-> {[tokens |-> BaseTokens], [tokens |-> MoreTokens]}]

BaseFiles ==
    [routes |-> [routes |-> BaseRoutes], users |-> [users |-> BaseUsers],
     roles |-> [roles |-> BaseRoles], tokens |-> [tokens |-> BaseTokens]]

----------------------------------------------------------------------------
(* Requests *)

Methods == {"GET", "PUT", "HEAD"}
Urls == {<<"/">>, <<"/", "p">>, <<"/", "h">>}
\* the Host header: <<>> when the request has none
Hosts == {<<>>, <<<<"1">>>>, <<<<"3">>>>}
\* the value of the first and of the second auth header: <<>> when missing
FirstAuthValues == {<<>>, <<"">>, <<"tj">>, <<"tb">>, <<"tg">>, <<"ta">>, <<"zz">>,
                    <<"constructor">>}
SecondAuthValues == {<<>>, <<"">>, <<"tj">>}

MkHeaders(host, first, second) ==
    [k \in (IF host = <<>> THEN {} ELSE {"host"})
           \cup (IF first = <<>> THEN {} ELSE {authHeaders[1]})
           \cup (IF second = <<>> THEN {} ELSE {authHeaders[2]})
       |-> IF k = "host" THEN host[1]
           ELSE IF k = authHeaders[1] THEN first[1] ELSE second[1]]

Requests ==
    {[method |-> m, url |-> u, headers |-> MkHeaders(h, a, b)] :
        m \in Methods, u \in Urls, h \in Hosts,
        a \in FirstAuthValues, b \in SecondAuthValues}

----------------------------------------------------------------------------
(* State machine *)

\* No call of reloadConfig occupies the slot.
Idle == [pc |-> "idle"]

\* No request occupies the slot.
NoRequest == [phase |-> "none"]

\* The eight fields as the constructor leaves them.
NoSnapshot ==
    [routes |-> Null, users |-> Null, roles |-> Null, tokens |-> Null,
     tokenIndex |-> Null, roleIndex |-> Null, userIndex |-> Null, grantIndex |-> Null]

\* new App(undefined, env)
ConstructedFrom(env) ==
    /\ opts = [reloadIntervalMs |-> defaults(env).reloadIntervalMs]
    /\ routes = Null /\ users = Null /\ roles = Null /\ tokens = Null
    /\ tokenIndex = Null /\ roleIndex = Null /\ userIndex = Null /\ grantIndex = Null
    /\ lastReloadTime = 0 /\ lastReloadMTime = 0
    /\ reloadInterval = FALSE /\ isReloading = FALSE
    /\ listening = FALSE /\ startState = "new"
    /\ last = [op |-> "new"]
    /\ timers = 0 /\ metricsListening = FALSE
    /\ reloads = [i \in 1..MaxReloads |-> Idle]
    /\ starts = 0 /\ faults = 0 /\ closed = FALSE
    /\ published = NoSnapshot
    /\ lastOutcome = [outcome |-> "none", found |-> -1]
    /\ proxyRequests = [labels \in {} |-> 0]
    /\ internalErrors = 0
    /\ inflight = [i \in 1..MaxInflight |-> NoRequest]
    /\ received = 0
    /\ uncaught = 0

\* new App() in an environment that sets none of the variables
Constructed == ConstructedFrom(EmptyObject)

Init ==
    /\ Constructed
    /\ files = BaseFiles
    /\ mtimes = [f \in FileNames |-> 1]

\* reloadConfig() run from its call to its end with no other callback in
\* between and no I/O error: the mtime gate, the load, the publication, the
\* catch and the finally block.  rejected: the promise rejects.
reloadConfig(rejected) ==
    LET maxMTime == Max({mtimes[f] : f \in FileNames})
    IN  /\ isReloading' = FALSE
        /\ lastReloadTime' = 1
        /\ IF lastReloadMTime # 0 /\ lastReloadMTime = maxMTime
           THEN /\ UNCHANGED <<appVars, lastReloadMTime>>
                /\ ~rejected
           ELSE \E loaded \in {loadConfig(files)} :
                /\ lastReloadMTime' = maxMTime
                /\ IF loaded.ok
                   THEN /\ routes' = Some(loaded.value.routes)
                        /\ users' = Some(loaded.value.users)
                        /\ roles' = Some(loaded.value.roles)
                        /\ tokens' = Some(loaded.value.tokens)
                        /\ tokenIndex' = Some(loaded.value.tokenIndex)
                        /\ roleIndex' = Some(loaded.value.roleIndex)
                        /\ userIndex' = Some(loaded.value.userIndex)
                        /\ grantIndex' = Some(loaded.value.grantIndex)
                        /\ ~rejected
                   ELSE /\ UNCHANGED appVars
                        /\ rejected = (lastReloadTime = 0)

\* start() with nothing else running before it returns: the initial load,
\* then the timer and the two listening servers.  delay: the delay of the
\* timer it armed, <<>> when it armed none.
Start ==
    /\ startState = "new"
    /\ \E rejected \in BOOLEAN :
          /\ reloadConfig(rejected)
          /\ IF rejected
             THEN /\ startState' = "rejected"
                  /\ UNCHANGED <<reloadInterval, listening, srvVars>>
                  /\ last' = [op |-> "start", delay |-> <<>>]
             ELSE /\ startState' = "started"
                  /\ reloadInterval' = MsLess(Ms(0), reloadIntervalMs)
                  /\ timers' = IF MsLess(Ms(0), reloadIntervalMs) THEN timers + 1 ELSE timers
                  /\ listening' = TRUE
                  /\ metricsListening' = TRUE
                  /\ last' = [op |-> "start",
                              delay |-> IF MsLess(Ms(0), reloadIntervalMs)
                                        THEN <<setInterval(MathMax(reloadIntervalMs, Ms(1000)))>>
                                        ELSE <<>>]
    /\ UNCHANGED <<fsVars, optVars, runVars>>

\* The setInterval callback, its reload running to the end before anything
\* else happens.
Tick ==
    /\ reloadInterval
    /\ ~isReloading
    /\ \E rejected \in BOOLEAN : reloadConfig(rejected)
    /\ last' = [op |-> "tick"]
    /\ UNCHANGED <<reloadInterval, listening, startState, fsVars, optVars, srvVars, runVars>>

\* Somebody rewrites a configuration file.
Touch ==
    /\ Max({mtimes[f] : f \in FileNames}) <= MaxTouches
    /\ \E f \in FileNames : \E doc \in Documents[f] :
          /\ files' = [files EXCEPT ![f] = doc]
          /\ mtimes' = [mtimes EXCEPT ![f] = Max({mtimes[g] : g \in FileNames}) + 1]
    /\ last' = [op |-> "touch"]
    /\ UNCHANGED <<appVars, loadVars, srvVars, runVars, optVars>>

\* Request handling that uses a grant up: the user's entry of the grant
\* index is emptied once a request has been handled
ServeConsuming ==
    /\ listening
    /\ last.op # "serve"
    /\ \E req \in Requests :
          /\ last' = [op |-> "serve", req |-> req, out |-> handle(req)]
          /\ grantIndex' = Some([u \in DOMAIN grantIndex.v |-> EmptyObject])
    /\ UNCHANGED <<routes, users, roles, tokens, tokenIndex, roleIndex, userIndex,
                   loadVars, fsVars, optVars, srvVars, runVars>>

\* The proxy server handles one request.  A request changes nothing but the
\* observation last, so one that follows another request reaches no state
\* that one following a start, tick or touch does not reach: only those are
\* generated.
Serve ==
    /\ listening
    /\ last.op # "serve"
    /\ \E req \in Requests : last' = [op |-> "serve", req |-> req, out |-> handle(req)]
    /\ UNCHANGED <<appVars, loadVars, fsVars, optVars, srvVars, runVars>>

Next == Start \/ Tick \/ Touch \/ Serve

Spec == Init /\ [][Next]_vars

----------------------------------------------------------------------------
(* getRoute over drawn routes lists *)

PathPatterns == {Prefix(<<"/">>), Prefix(<<"/", "p">>)}
\* route.methods: <<>> when the route has none, else <<methods>>
MethodOptions == {<<>>, <<<<"GET">>>>, <<<<"PUT", "GET">>>>, <<<<>>>>}
\* route.hosts: <<>> when the route has none, else <<hosts>>
HostOptions == {<<>>, <<<<Exact(<<"1">>), Exact(<<"2">>)>>>>, <<<<Exact(<<>>)>>>>}

MkRoute(path, methods, hosts) ==
    [k \in {"path", "proxy", "resource"}
           \cup (IF methods = <<>> THEN {} ELSE {"methods"})
           \cup (IF hosts = <<>> THEN {} ELSE {"hosts"})
       |-> CASE k = "path" -> path
             [] k = "proxy" -> [target |-> "up"]
             [] k = "resource" -> "api"
             [] k = "methods" -> methods[1]
             [] k = "hosts" -> hosts[1]]

RouteSet == {MkRoute(p, m, h) : p \in PathPatterns, m \in MethodOptions, h \in HostOptions}

RouteMethods == {"GET", "PUT"}
RoutePaths == {<<"/">>, <<"/", "p">>}
\* host as getRoute receives it: undefined, '', '1', '3'
RouteHosts == {<<>>, <<<<>>>>, <<<<"1">>>>, <<<<"3">>>>}

InitRoute ==
    /\ Constructed
    /\ \E rs \in SeqsUpTo(RouteSet, MaxRoutes) :
          files = [BaseFiles EXCEPT !.routes = [routes |-> rs]]
    /\ mtimes = [f \in FileNames |-> 1]

\* A call of getRoute on the loaded routes.
GetRoute ==
    /\ ~IsNull(routes)
    /\ last.op # "getRoute"
    /\ \E method \in RouteMethods, path \in RoutePaths, host \in RouteHosts :
          last' = [op |-> "getRoute", method |-> method, path |-> path, host |-> host,
                   result |-> getRoute(method, path, host)]
    /\ UNCHANGED <<appVars, loadVars, fsVars, optVars, srvVars, runVars>>

NextRoute == Start \/ GetRoute

SpecRoute == InitRoute /\ [][NextRoute]_vars

----------------------------------------------------------------------------
(* authorize over drawn users and roles documents *)

AuthzResources == {"api", "other"}
AuthzMethods == {"GET", "PUT"}
\* grant.methods: <<>> when the grant has none, else <<methods>>
GrantMethodOptions == {<<>>, <<<<"GET">>>>, <<<<"*">>>>, <<<<>>>>}

MkGrant(resource, methods) ==
    IF methods = <<>> THEN [resource |-> resource]
    ELSE [resource |-> resource, methods |-> methods[1]]

GrantSet ==
    {MkGrant("api", m) : m \in GrantMethodOptions} \cup {MkGrant("other", <<<<"PUT">>>>)}

RoleNameLists == {<<>>, <<"r1">>, <<"r1", "r2">>}

\* The roles documents: roles named as in one of RoleNameLists, each with at
\* most MaxGrants grants.
RolesDocuments ==
    UNION {{[i \in 1..Len(names) |-> [name |-> names[i], grants |-> gs[i]]] :
               gs \in [1..Len(names) -> SeqsUpTo(GrantSet, MaxGrants)]} :
           names \in RoleNameLists}

\* user.roles: <<>> when the user has no roles field, else <<roles>>
UserRoleOptions ==
    {<<>>, <<<<>>>>, <<<<"r1">>>>, <<<<"r2">>>>, <<<<"r1", "r2">>>>, <<<<"r2", "r1">>>>,
     <<<<"rx", "r1">>>>, <<<<"r1", "constructor">>>>}
\* user.admin: <<>> when the user has no admin field
AdminOptions == {<<>>, <<TRUE>>, <<FALSE>>}

MkUser(name, userRoles, admin) ==
    [k \in {"name"} \cup (IF userRoles = <<>> THEN {} ELSE {"roles"})
                    \cup (IF admin = <<>> THEN {} ELSE {"admin"})
       |-> CASE k = "name" -> name
             [] k = "roles" -> userRoles[1]
             [] k = "admin" -> admin[1]]

\* the declared user u, and v, who is not declared
AuthzUsers == {"u", "v"}

InitAuthz ==
    /\ Constructed
    /\ \E rs \in UserRoleOptions, a \in AdminOptions, doc \in RolesDocuments :
          files = [BaseFiles EXCEPT !.users = [users |-> <<MkUser("u", rs, a)>>],
                                    !.roles = [roles |-> doc]]
    /\ mtimes = [f \in FileNames |-> 1]

\* A call of authorize on the loaded indices.
Authorize ==
    /\ ~IsNull(grantIndex)
    /\ last.op # "authorize"
    /\ \E user \in AuthzUsers, resource \in AuthzResources, method \in AuthzMethods :
          last' = [op |-> "authorize", user |-> user, resource |-> resource,
                   method |-> method, result |-> authorize(user, resource, method)]
    /\ UNCHANGED <<appVars, loadVars, fsVars, optVars, srvVars, runVars>>

NextAuthz == Start \/ Authorize

SpecAuthz == InitAuthz /\ [][NextAuthz]_vars

----------------------------------------------------------------------------
(* The index builders over drawn record lists *)

\* The keys of the drawn records: two ordinary names, and a name that every
\* object literal inherits.
IndexKeys == {"abc", "xyz", "constructor"}

TokenRecords == {[token |-> k, user |-> u] : k \in IndexKeys, u \in {"john", "bill"}}
UserRecords == {[name |-> k, roles |-> r] : k \in IndexKeys, r \in {<<>>, <<"reader">>}}
RoleRecords ==
    {[name |-> k, grants |-> g] : k \in IndexKeys, g \in {<<>>, <<[resource |-> "api"]>>}}

\* A call of getTokenIndex, getUserIndex or getRoleIndex on a drawn list.
BuildIndex ==
    /\ last.op # "index"
    /\ \/ \E list \in SeqsUpTo(TokenRecords, MaxRecords) :
             last' = [op |-> "index", kind |-> "token", list |-> list,
                      result |-> getTokenIndex(list)]
       \/ \E list \in SeqsUpTo(UserRecords, MaxRecords) :
             last' = [op |-> "index", kind |-> "user", list |-> list,
                      result |-> getUserIndex(list)]
       \/ \E list \in SeqsUpTo(RoleRecords, MaxRecords) :
             last' = [op |-> "index", kind |-> "role", list |-> list,
                      result |-> getRoleIndex(list)]
    /\ UNCHANGED <<appVars, loadVars, fsVars, optVars, srvVars, runVars>>

NextIndex == BuildIndex

SpecIndex == Init /\ [][NextIndex]_vars

----------------------------------------------------------------------------
(* The validators over drawn records *)

\* The greatest length of a drawn array of strings (a drawn array of grants
\* has at most MaxGrants elements).
MaxElements == 2

\* A field the record does not have.
Absent == [absent |-> TRUE]

\* The object with the fields that are not Absent.
MkObject(fields) ==
    JsObject([k \in {j \in DOMAIN fields : "absent" \notin DOMAIN fields[j]} |-> fields[k]])

\* What a field that should hold a string is drawn from.
StringInputs == {Absent, Null, JsNumber(1), JsString(""), JsString("abc")}

\* What a field that should hold a regular expression is drawn from.
PatternInputs ==
    {Absent, Null, JsNumber(1), JsString(<<>>), JsString(<<"(">>), JsString(<<"^", "/">>)}

ProxyInputs ==
    {Absent, Null, JsString("up"), JsArray(<<>>)}
        \cup {MkObject([target |-> t]) : t \in StringInputs}

HostsInputs ==
    {Absent, Null, JsString(<<"1">>)}
        \cup {JsArray(a) : a \in SeqsUpTo(PatternInputs \ {Absent}, MaxElements)}

RouteInputs ==
    {MkObject([path |-> p, proxy |-> x, hosts |-> h]) :
        p \in PatternInputs, x \in ProxyInputs, h \in HostsInputs}

TokenInputs == {MkObject([token |-> t, user |-> u]) : t \in StringInputs, u \in StringInputs}

RolesInputs ==
    {Absent, Null, JsString("abc")}
        \cup {JsArray(a) : a \in SeqsUpTo(StringInputs \ {Absent}, MaxElements)}

AdminInputs ==
    {Absent, Null, JsString("true"), JsNumber(0), JsBoolean(TRUE), JsBoolean(FALSE)}

UserInputs ==
    {MkObject([name |-> n, roles |-> r, admin |-> a]) :
        n \in StringInputs, r \in RolesInputs, a \in AdminInputs}

MethodsInputs ==
    {Absent, Null, JsBoolean(FALSE), JsNumber(0), JsNumber(1), JsString(""), JsString("str"),
     JsObject(EmptyObject), JsArray(<<>>), JsArray(<<JsString("GET")>>)}

GrantInputs ==
    {MkObject([resource |-> r, methods |-> m]) : r \in StringInputs, m \in MethodsInputs}

GrantsInputs ==
    {Absent, Null, JsString("abc"), JsObject(EmptyObject)}
        \cup {JsArray(a) : a \in SeqsUpTo(GrantInputs, MaxGrants)}

RoleInputs == {MkObject([name |-> n, grants |-> g]) : n \in StringInputs, g \in GrantsInputs}

\* A call of validateRoute, validateToken, validateUser or validateRole on
\* a drawn record.
Validate ==
    /\ last.op # "validate"
    /\ \/ \E record \in RouteInputs :
             last' = [op |-> "validate", kind |-> "route", record |-> record,
                      result |-> validateRoute(record)]
       \/ \E record \in TokenInputs :
             last' = [op |-> "validate", kind |-> "token", record |-> record,
                      result |-> validateToken(record)]
       \/ \E record \in UserInputs :
             last' = [op |-> "validate", kind |-> "user", record |-> record,
                      result |-> validateUser(record)]
       \/ \E record \in RoleInputs :
             last' = [op |-> "validate", kind |-> "role", record |-> record,
                      result |-> validateRole(record)]
    /\ UNCHANGED <<appVars, loadVars, fsVars, optVars, srvVars, runVars>>

NextValidate == Validate

SpecValidate == Init /\ [][NextValidate]_vars

----------------------------------------------------------------------------
(* The grant index over drawn roles, edited and reloaded *)

\* grants of the first drawn role (the second has one at most)
MaxRoleGrants == 2
\* edits of the configuration in one behaviour
MaxEdits == 1

\* A wildcard grant and a method grant on one resource, a grant on another.
EditGrants ==
    {[resource |-> "api"], [resource |-> "api", methods |-> <<"GET">>],
     [resource |-> "other", methods |-> <<"PUT">>]}

\* user.roles of the drawn user; rx names no role.
EditUserRoles == {<<>>, <<"r1">>, <<"r1", "r2">>, <<"rx", "r1">>}

InitGrants ==
    /\ Constructed
    /\ \E rs \in EditUserRoles, g1 \in SeqsUpTo(EditGrants, MaxRoleGrants),
          g2 \in SeqsUpTo(EditGrants, 1) :
          files = [BaseFiles EXCEPT
                     !.users = [users |-> <<[name |-> "u", roles |-> rs]>>],
                     !.roles = [roles |-> <<[name |-> "r1", grants |-> g1],
                                            [name |-> "r2", grants |-> g2]>>]]
    /\ mtimes = [f \in FileNames |-> 1]

Reverse(list) == [i \in 1..Len(list) |-> list[Len(list) + 1 - i]]

\* The users and roles documents an edit may leave: the user's roles
\* permuted, a role listed once more, the grants of a role permuted, a grant
\* written once more, a role added to the user, a grant added to a role.
Edits ==
    LET user == files.users.users[1]
        withRoles(kind, rs) ==
            [kind |-> kind, file |-> "users",
             doc |-> [users |-> <<[user EXCEPT !.roles = rs]>>]]
        withGrants(kind, k, gs) ==
            [kind |-> kind, file |-> "roles",
             doc |-> [roles |-> [files.roles.roles EXCEPT ![k].grants = gs]]]
    IN  {withRoles("permuteRoles", Reverse(user.roles))}
        \cup {withRoles("repeatRole", Append(user.roles, user.roles[i])) :
                 i \in 1..Len(user.roles)}
        \cup {withRoles("addRole", Append(user.roles, name)) : name \in {"r2", "rx"}}
        \cup {withGrants("permuteGrants", k, Reverse(files.roles.roles[k].grants)) :
                 k \in 1..Len(files.roles.roles)}
        \cup UNION {{withGrants("duplicateGrant", k,
                                Append(files.roles.roles[k].grants,
                                       files.roles.roles[k].grants[i])) :
                        i \in 1..Len(files.roles.roles[k].grants)} :
                    k \in 1..Len(files.roles.roles)}
        \cup {withGrants("addGrant", k, Append(files.roles.roles[k].grants, g)) :
                 k \in 1..Len(files.roles.roles), g \in EditGrants}

\* What authorize returns for the drawn user, by resource and method.
Permissions ==
    [p \in {"api", "other"} \X {"GET", "PUT"} |-> authorize("u", p[1], p[2])]

\* Somebody rewrites users.yaml or roles.yaml with an edited document;
\* kinds: the edits made since the files were last read, before: the
\* permissions of the drawn user when the file is written.
Edit ==
    /\ startState = "started"
    /\ Max({mtimes[f] : f \in FileNames}) <= MaxEdits
    /\ \E e \in Edits :
          /\ files' = [files EXCEPT ![e.file] = e.doc]
          /\ mtimes' = [mtimes EXCEPT ![e.file] = Max({mtimes[g] : g \in FileNames}) + 1]
          /\ last' = [op |-> "edit",
                       kinds |-> (IF last.op = "edit" THEN last.kinds ELSE {})
                                     \cup {e.kind},
                       before |-> Permissions]
    /\ UNCHANGED <<appVars, loadVars, srvVars, runVars, optVars>>

NextGrants == Start \/ Edit \/ Tick

SpecGrants == InitGrants /\ [][NextGrants]_vars

----------------------------------------------------------------------------
(* The load over drawn documents, well-formed and malformed *)

\* Two records of the same name, and two tokens of the same value
TwiceUsers == <<[name |-> "john", roles |-> <<>>], [name |-> "john", roles |-> <<>>]>>
TwiceRoles == <<[name |-> "reader", grants |-> <<>>], [name |-> "reader", grants |-> <<>>]>>
TwiceTokens == <<[token |-> "tj", user |-> "john"], [token |-> "tj", user |-> "bob"]>>

\* What each file is drawn from: the test configuration; an empty document,
\* which the parser returns as null; a document without its top-level key; a
\* list with a record that is null (an item without content); records with
\* a field missing, null or of a value the data model excludes.
LoadDocuments ==
    [routes |-> {[routes |-> BaseRoutes], Null, NoKey, [routes |-> <<Null>>],
                 [routes |-> <<[path |-> Prefix(<<"/">>), proxy |-> Null,
                                resource |-> "api"]>>],
                 [routes |-> <<[path |-> Prefix(<<"/">>), resource |-> "api"]>>],
                 [routes |-> <<[path |-> Prefix(<<>>), proxy |-> [target |-> "up"],
                                resource |-> "api"]>>]},
     users  |-> {[users |-> BaseUsers], Null, NoKey, [users |-> <<Null>>],
                 [users |-> NoRolesUsers], [users |-> TwiceUsers],
                 [users |-> <<[name |-> "", roles |-> <<>>]>>]},
     roles  |-> {[roles |-> BaseRoles], Null, NoKey, [roles |-> <<Null>>],
                 [roles |-> <<[name |-> "reader", grants |-> <<Null>>]>>],
                 [roles |-> TwiceRoles], [roles |-> <<[name |-> "reader"]>>]},
     tokens |-> {[tokens |-> BaseTokens], Null, NoKey, [tokens |-> <<Null>>],
                 [tokens |-> TwiceTokens], [tokens |-> <<[token |-> "tj"]>>]}]

\* The try block of reloadConfig past the mtime gate, on drawn documents.
Load ==
    /\ last.op # "load"
    /\ \E f \in [FileNames -> UNION {LoadDocuments[g] : g \in FileNames}] :
          /\ \A g \in FileNames : f[g] \in LoadDocuments[g]
          /\ last' = [op |-> "load", files |-> f, result |-> loadConfig(f)]
    /\ UNCHANGED <<appVars, loadVars, fsVars, optVars, srvVars, runVars>>

NextLoad == Load

SpecLoad == Init /\ [][NextLoad]_vars

----------------------------------------------------------------------------
(* App.defaults(env) over drawn environments *)

\* The greatest port number METRICS_PORT is drawn from: the ports 1..MaxPort
\* include the two defaults.
MaxPort == 8191

\* The environments drawn: METRICS_PORT not set, or set to a port number.
Environments ==
    {EmptyObject} \cup {[METRICS_PORT |-> Decimal(q)] : q \in 1..MaxPort}

\* new App(undefined, env): this.opts are the defaults, and start() passes
\* opts.metricsPort to metricsServer.listen().
Defaults ==
    /\ last.op # "defaults"
    /\ \E env \in Environments :
          last' = [op |-> "defaults", env |-> env, opts |-> defaults(env)]
    /\ UNCHANGED <<appVars, loadVars, fsVars, optVars, srvVars, runVars>>

NextDefaults == Defaults

SpecDefaults == Init /\ [][NextDefaults]_vars

----------------------------------------------------------------------------
(* start() and the timer over drawn values of RELOAD_INTERVAL_MS *)

\* RELOAD_INTERVAL_MS not set, or set to: nothing, 0, a number below the
\* minimum, the minimum, a number above it, the greatest delay a timer
\* keeps, and the number after that.
IntervalEnvironments ==
    {EmptyObject} \cup
    {[RELOAD_INTERVAL_MS |-> str] :
        str \in {<<>>, Decimal(0), Decimal(1), Decimal(500), Decimal(1000), Decimal(30000),
                 <<"2", "1", "4", "7", "4", "8", "3", "6", "4", "7">>,
                 <<"2", "1", "4", "7", "4", "8", "3", "6", "4", "8">>}}

InitInterval ==
    /\ \E env \in IntervalEnvironments : ConstructedFrom(env)
    /\ files \in {BaseFiles, [BaseFiles EXCEPT !.routes = NoKey]}
    /\ mtimes = [f \in FileNames |-> 1]

NextInterval == Start \/ Tick \/ Touch

SpecInterval == InitInterval /\ [][NextInterval]_vars

----------------------------------------------------------------------------
(* start(), close() and reloadConfig() step by step.  reloadConfig is an    *)
(* async function: each await (four fs.open, four stat, four readFile)      *)
(* ends a step, and any other callback may run before the next one.  What   *)
(* follows the last await of a call, the continuation of start() included,  *)
(* runs without interruption.                                               *)

\* The order in which reloadConfig opens, stats and reads the files.
FileOrder == <<"routes", "users", "roles", "tokens">>

\* A call of reloadConfig at its first await.  maxMTime: the greatest mtime
\* its stats returned so far; found: this.lastReloadMTime as the gate found
\* it, -1 before the gate; docs: the documents read so far; handles: the
\* file handles it has opened and not closed.
Invocation(caller) ==
    [pc |-> "open", k |-> 1, caller |-> caller, maxMTime |-> 0, found |-> -1, docs |-> <<>>,
     handles |-> 0]

\* The lowest slot no call occupies, 0 when there is none.
FreeSlot ==
    IF \E i \in 1..MaxReloads : reloads[i] = Idle
    THEN Min({i \in 1..MaxReloads : reloads[i] = Idle})
    ELSE 0

\* What reloadConfig does with one document after reading it: the wrapper
\* key, the validation of each record, the index.
loadStep(f, doc) ==
    LET list == wrapper(doc, f) IN
    IF ~list.ok THEN list
    ELSE CASE f = "routes" ->
            LET results == [k \in 1..Len(list.value) |->
                               validateRoute(JsRoute(list.value[k]))]
            IN  IF ~AllReturn(results) THEN FirstThrown(results) ELSE list
      [] f = "users" ->
            LET results == [k \in 1..Len(list.value) |->
                               validateUser(JsUser(list.value[k]))]
            IN  IF ~AllReturn(results) THEN FirstThrown(results)
                ELSE getUserIndex(list.value)
      [] f = "roles" ->
            LET results == [k \in 1..Len(list.value) |->
                               validateRole(JsRole(list.value[k]))]
            IN  IF ~AllReturn(results) THEN FirstThrown(results)
                ELSE getRoleIndex(list.value)
      [] f = "tokens" ->
            LET results == [k \in 1..Len(list.value) |->
                               validateToken(JsToken(list.value[k]))]
            IN  IF ~AllReturn(results) THEN FirstThrown(results)
                ELSE getTokenIndex(list.value)

\* The eight fields a publication of the loaded value s assigns.
SnapshotOf(s) ==
    [routes |-> Some(s.routes), users |-> Some(s.users), roles |-> Some(s.roles),
     tokens |-> Some(s.tokens), tokenIndex |-> Some(s.tokenIndex),
     roleIndex |-> Some(s.roleIndex), userIndex |-> Some(s.userIndex),
     grantIndex |-> Some(s.grantIndex)]

\* The eight fields as they are now.
Current ==
    [routes |-> routes, users |-> users, roles |-> roles, tokens |-> tokens,
     tokenIndex |-> tokenIndex, roleIndex |-> roleIndex, userIndex |-> userIndex,
     grantIndex |-> grantIndex]

\* A publication that assigns the routes and leaves the rest for later
publishRoutesOnly(s) ==
    /\ routes' = Some(s.routes)
    /\ UNCHANGED <<users, roles, tokens, tokenIndex, roleIndex, userIndex, grantIndex>>

\* The assignments at the end of the try block.
publish(s) ==
    /\ routes' = Some(s.routes)
    /\ users' = Some(s.users)
    /\ roles' = Some(s.roles)
    /\ tokens' = Some(s.tokens)
    /\ tokenIndex' = Some(s.tokenIndex)
    /\ roleIndex' = Some(s.roleIndex)
    /\ userIndex' = Some(s.userIndex)
    /\ grantIndex' = Some(s.grantIndex)

\* A gate that lets every attempt through
gateNever(maxMTime) == FALSE

\* if (this.lastReloadMTime && this.lastReloadMTime == maxMTime) return
gate(maxMTime) == lastReloadMTime # 0 /\ lastReloadMTime = maxMTime

\* The finally block.
finally ==
    /\ isReloading' = FALSE
    /\ lastReloadTime' = 1

\* The four close() calls of the finally block, on the call's own handles.
closeHandles(inv) == [inv EXCEPT !.handles = 0]

\* start() after await this.reloadConfig(): nothing when the promise
\* rejected; else the timer, then the two servers.  httpServer.listen() on a
\* server that is listening throws before metricsServer.listen() is reached.
resume(caller, rejected) ==
    IF caller = "start" /\ ~rejected
    THEN /\ timers' = (IF MsLess(Ms(0), reloadIntervalMs) THEN timers + 1 ELSE timers)
         /\ reloadInterval' = (IF MsLess(Ms(0), reloadIntervalMs) THEN TRUE
                               ELSE reloadInterval)
         /\ listening' = TRUE
         /\ metricsListening' = (IF listening THEN metricsListening ELSE TRUE)
         /\ startState' = (IF listening THEN "rejected" ELSE "started")
    ELSE /\ UNCHANGED <<timers, reloadInterval, listening, metricsListening>>
         /\ startState' = (IF caller = "start" THEN "rejected" ELSE startState)

\* The call in slot i, in the state inv, ends: its promise is settled and
\* its caller goes on.  handles: the file handles the call leaves open.
end(i, inv, outcome, rejected) ==
    /\ reloads' = [reloads EXCEPT ![i] = Idle]
    /\ resume(inv.caller, rejected)
    /\ lastOutcome' = [outcome |-> outcome, found |-> inv.found]
    /\ last' = [op |-> "reloadEnd", caller |-> inv.caller, outcome |-> outcome,
                prev |-> lastOutcome, resumed |-> (inv.caller = "start" /\ ~rejected),
                maxMTime |-> inv.maxMTime, found |-> inv.found, parsed |-> Len(inv.docs),
                handles |-> inv.handles]

\* A failed attempt that clears what was published
abortClearing(i, inv) ==
    /\ routes' = Null /\ users' = Null /\ roles' = Null /\ tokens' = Null
    /\ tokenIndex' = Null /\ roleIndex' = Null /\ userIndex' = Null /\ grantIndex' = Null
    /\ UNCHANGED published
    /\ finally
    /\ IF lastReloadTime = 0
       THEN end(i, closeHandles(inv), "rejected", TRUE)
       ELSE end(i, closeHandles(inv), "logged", FALSE)

\* An error inside the try block: the catch block rethrows it when no reload
\* ever ended before and logs it otherwise; then the finally block.
abort(i, inv) ==
    /\ UNCHANGED <<appVars, published>>
    /\ finally
    /\ IF lastReloadTime = 0
       THEN end(i, closeHandles(inv), "rejected", TRUE)
       ELSE end(i, closeHandles(inv), "logged", FALSE)

\* What an operation that returns nothing to observe leaves in last.
Step == [op |-> "step"]

\* start() is called: reloadConfig sets isReloading and awaits the first
\* fs.open.
CallStart ==
    /\ starts < MaxStarts
    /\ FreeSlot # 0
    /\ starts' = starts + 1
    /\ closed' = FALSE
    /\ isReloading' = TRUE
    /\ startState' = "loading"
    /\ reloads' = [reloads EXCEPT ![FreeSlot] = Invocation("start")]
    /\ last' = Step
    /\ UNCHANGED <<appVars, lastReloadTime, lastReloadMTime, reloadInterval, listening,
                   fsVars, optVars, srvVars, faults, published, lastOutcome, fwdVars>>

\* An armed interval timer fires while isReloading is false.
TimerTick ==
    /\ timers > 0
    /\ ~isReloading
    /\ FreeSlot # 0
    /\ isReloading' = TRUE
    /\ reloads' = [reloads EXCEPT ![FreeSlot] = Invocation("tick")]
    /\ last' = Step
    /\ UNCHANGED <<appVars, lastReloadTime, lastReloadMTime, reloadInterval, listening,
                   startState, fsVars, optVars, srvVars, starts, faults, closed, published,
                   lastOutcome, fwdVars>>

\* close()
Close ==
    /\ closed' = TRUE
    /\ timers' = (IF reloadInterval THEN timers - 1 ELSE timers)
    /\ reloadInterval' = FALSE
    /\ listening' = FALSE
    /\ metricsListening' = FALSE
    /\ last' = Step
    /\ UNCHANGED <<appVars, lastReloadTime, lastReloadMTime, isReloading, startState,
                   fsVars, optVars, reloads, starts, faults, published, lastOutcome, fwdVars>>

\* The await of the call in slot i is fulfilled and the call runs to its
\* next await or to its end.
ReloadStep(i) ==
    LET inv == reloads[i]
        f == FileOrder[inv.k]
    IN
    /\ inv.pc # "idle"
    /\ UNCHANGED <<fsVars, optVars, starts, faults, closed, fwdVars>>
    /\ IF inv.pc = "open"
       THEN /\ reloads' = [reloads EXCEPT ![i] =
                             IF inv.k < Len(FileOrder)
                             THEN [inv EXCEPT !.k = inv.k + 1,
                                              !.handles = inv.handles + 1]
                             ELSE [inv EXCEPT !.pc = "stat", !.k = 1,
                                              !.handles = inv.handles + 1]]
            /\ last' = Step
            /\ UNCHANGED <<appVars, loadVars, srvVars, published, lastOutcome>>
       ELSE IF inv.pc = "stat"
       THEN LET m == Max({inv.maxMTime, mtimes[f]})
                seen == [inv EXCEPT !.maxMTime = m, !.found = lastReloadMTime]
            IN  IF inv.k < Len(FileOrder)
                THEN /\ reloads' = [reloads EXCEPT ![i] = [inv EXCEPT !.maxMTime = m,
                                                                       !.k = inv.k + 1]]
                     /\ last' = Step
                     /\ UNCHANGED <<appVars, loadVars, srvVars, published, lastOutcome>>
                ELSE IF gate(m)
                THEN /\ UNCHANGED <<appVars, published, lastReloadMTime>>
                     /\ finally
                     /\ end(i, closeHandles(seen), "unchanged", FALSE)
                ELSE /\ lastReloadMTime' = m
                     /\ reloads' = [reloads EXCEPT ![i] = [seen EXCEPT !.pc = "read",
                                                                        !.k = 1]]
                     /\ last' = Step
                     /\ UNCHANGED <<appVars, lastReloadTime, reloadInterval, isReloading,
                                    listening, startState, srvVars, published, lastOutcome>>
       ELSE LET doc == files[f]
                got == [inv EXCEPT !.docs = Append(inv.docs, doc)]
                parsed == [g \in FileNames |->
                              got.docs[CHOOSE n \in 1..Len(FileOrder) : FileOrder[n] = g]]
            IN  /\ UNCHANGED lastReloadMTime
                /\ IF ~loadStep(f, doc).ok
                   THEN abort(i, inv)
                   ELSE IF inv.k < Len(FileOrder)
                   THEN /\ reloads' = [reloads EXCEPT ![i] = [got EXCEPT !.k = inv.k + 1]]
                        /\ last' = Step
                        /\ UNCHANGED <<appVars, lastReloadTime, reloadInterval, isReloading,
                                       listening, startState, srvVars, published,
                                       lastOutcome>>
                   ELSE \E loaded \in {loadConfig(parsed)} :
                        IF ~loaded.ok
                        THEN abort(i, got)
                        ELSE /\ publish(loaded.value)
                             /\ published' = SnapshotOf(loaded.value)
                             /\ finally
                             /\ end(i, closeHandles(got), "published", FALSE)

\* The await of the call in slot i is rejected with an I/O error.  fs.open
\* is awaited before the try block: its error ends the call at once.
ReloadFault(i) ==
    LET inv == reloads[i]
    IN
    /\ inv.pc # "idle"
    /\ faults < MaxFaults
    /\ faults' = faults + 1
    /\ UNCHANGED <<fsVars, optVars, starts, closed, lastReloadMTime, fwdVars>>
    /\ IF inv.pc = "open"
       THEN /\ UNCHANGED <<appVars, published, isReloading, lastReloadTime>>
            /\ end(i, inv, "openRejected", TRUE)
       ELSE abort(i, inv)

\* The documents a file is rewritten with while reloads run: tokens with a
\* token added, routes without their top-level key, users with a record
\* that has no roles.
Rewrites ==
    [routes |-> {NoKey}, users |-> {[users |-> NoRolesUsers]}, roles |-> {},
     tokens |-> {[tokens |-> MoreTokens], [tokens |-> BaseTokens]}]

\* Somebody rewrites a configuration file; its mtime becomes the latest.
Rewrite ==
    /\ Max({mtimes[f] : f \in FileNames}) <= MaxTouches
    /\ \E f \in FileNames : \E doc \in Rewrites[f] :
          /\ files' = [files EXCEPT ![f] = doc]
          /\ mtimes' = [mtimes EXCEPT ![f] = Max({mtimes[g] : g \in FileNames}) + 1]
    /\ last' = Step
    /\ UNCHANGED <<appVars, loadVars, srvVars, runVars, optVars>>

\* The requests sent while reloads run.
ReloadRequests ==
    {[method |-> "GET", url |-> <<"/">>, headers |-> MkHeaders(<<>>, <<"tj">>, <<>>)],
     [method |-> "GET", url |-> <<"/", "p">>, headers |-> MkHeaders(<<>>, <<>>, <<>>)]}

\* The proxy server handles one request; read: the fields getRoute,
\* authenticate and authorize read while they handle it.
Request ==
    /\ listening
    /\ last.op # "request"
    /\ \E req \in ReloadRequests :
          last' = [op |-> "request", req |-> req, out |-> handle(req),
                   read |-> [routes |-> routes, tokenIndex |-> tokenIndex,
                             userIndex |-> userIndex, grantIndex |-> grantIndex]]
    /\ UNCHANGED <<appVars, loadVars, fsVars, optVars, srvVars, runVars>>

NextReload ==
    \/ CallStart
    \/ TimerTick
    \/ Close
    \/ Rewrite
    \/ Request
    \/ \E i \in 1..MaxReloads : ReloadStep(i)
    \/ \E i \in 1..MaxReloads : ReloadFault(i)

SpecReload == Init /\ [][NextReload]_vars

----------------------------------------------------------------------------
(* Requests, the counters and the forwarder.  serve() hands a request to    *)
(* httpProxy.web and returns; the forwarder relays the upstream's response  *)
(* and calls back later: 'proxyRes' when the head of the upstream's         *)
(* response has arrived, 'error' when the upstream request fails, which can *)
(* be before the response, or after it while the body is relayed.  The      *)
(* reload timer fires and files are rewritten while requests are in flight. *)

\* counter.inc(labels)
Inc(counter, labels) ==
    [l \in DOMAIN counter \cup {labels} |->
        IF l = labels
        THEN (IF labels \in DOMAIN counter THEN counter[labels] + 1 ELSE 1)
        ELSE counter[l]]

\* The labels serve increments proxy_requests_total with before it writes
\* its own response: none when it forwards.
serveLabels(out) ==
    IF out.status = 404 THEN <<[code |-> 404]>>
    ELSE IF out.status \in {401, 403}
    THEN <<[code |-> out.status, resource |-> out.resource]>>
    ELSE <<>>

\* The requests: forwarded as john, forwarded as anonymous, 401, 403, 404.
ForwardRequests ==
    {[method |-> "GET", url |-> <<"/">>, headers |-> MkHeaders(<<>>, <<"tj">>, <<>>)],
     [method |-> "GET", url |-> <<"/", "p">>, headers |-> MkHeaders(<<>>, <<>>, <<>>)],
     [method |-> "GET", url |-> <<"/">>, headers |-> MkHeaders(<<>>, <<>>, <<>>)],
     [method |-> "PUT", url |-> <<"/">>, headers |-> MkHeaders(<<>>, <<"tj">>, <<>>)],
     [method |-> "HEAD", url |-> <<"/">>, headers |-> MkHeaders(<<>>, <<"tj">>, <<>>)]}

\* The lowest slot no request occupies, 0 when there is none.
FreeRequestSlot ==
    IF \E i \in 1..MaxInflight : inflight[i] = NoRequest
    THEN Min({i \in 1..MaxInflight : inflight[i] = NoRequest})
    ELSE 0

\* A request the forwarder is done with.  event: how it ended; thrown: the
\* callback threw; status: the status the callback wrote, 0 when it wrote
\* none; counted: the codes proxy_requests_total was incremented with for
\* this request, and labelled: the resource labels that went with them;
\* route: the route getRoute returned when the request came in.
Done(request, event, thrown, status) ==
    [op |-> "done", event |-> event, thrown |-> thrown, writeFailed |-> FALSE,
     status |-> status, counted |-> request.counted, resource |-> request.resource,
     target |-> request.target, labelled |-> request.labelled, req |-> request.req,
     route |-> request.route]

\* The resource of the route the request matches in this.routes when the
\* callback runs
reqResourceNow(request) ==
    LET routeInfo == getRoute(request.req.method, request.req.url, HostOf(request.req))
    IN  IF routeInfo.found THEN routeInfo.route.resource ELSE Undefined

\* req.resource as the callbacks of the forwarder read it: the property
\* serve assigned to the request object before it forwarded it.
reqResource(request) == request.resource

\* The proxy server receives a request: the createServer callback runs
\* serve inside try.  thrown: serve throws before it answers; writeFails:
\* writing the 500 response throws.  The catch block logs, increments
\* internal_errors_total and writes the 500 response inside a second try,
\* whose catch block logs.
Receive ==
    /\ listening
    /\ uncaught = 0
    /\ received < MaxRequests
    /\ \E req \in ForwardRequests, thrown \in BOOLEAN, writeFails \in BOOLEAN :
          \E out \in {handle(req)} :
          LET threw == thrown \/ out.status = 500
              labels == IF threw THEN <<>> ELSE serveLabels(out)
              forwarded == ~threw /\ out.status = 0
          IN  /\ writeFails => threw
              /\ forwarded => FreeRequestSlot # 0
              /\ received' = received + 1
              /\ proxyRequests' =
                    (IF labels = <<>> THEN proxyRequests ELSE Inc(proxyRequests, labels[1]))
              /\ internalErrors' = (IF threw THEN internalErrors + 1 ELSE internalErrors)
              /\ inflight' =
                    (IF forwarded
                     THEN [inflight EXCEPT ![FreeRequestSlot] =
                              [phase |-> "sent", resource |-> out.resource,
                               target |-> out.target, counted |-> <<>>,
                               labelled |-> <<>>, req |-> req,
                               route |-> getRoute(req.method, req.url, HostOf(req)).route]]
                     ELSE inflight)
              /\ last' = [op |-> "receive", thrown |-> threw, writeFailed |-> writeFails,
                          status |-> (IF ~threw THEN out.status
                                      ELSE IF writeFails THEN 0 ELSE 500),
                          counted |-> [k \in 1..Len(labels) |-> labels[k].code]]
    /\ UNCHANGED <<appVars, loadVars, fsVars, optVars, srvVars, reloads, starts, faults, closed,
                   published, lastOutcome, uncaught>>

\* The 'proxyRes' callback: the head of the upstream's response has arrived.
ProxyRes(i) ==
    /\ uncaught = 0
    /\ inflight[i].phase = "sent"
    /\ proxyRequests' =
          Inc(proxyRequests, [code |-> 302, resource |-> reqResource(inflight[i])])
    /\ inflight' = [inflight EXCEPT ![i].phase = "head",
                                    ![i].counted = Append(@, 302),
                                    ![i].labelled = Append(@, reqResource(inflight[i]))]
    /\ last' = Step
    /\ UNCHANGED <<appVars, loadVars, fsVars, optVars, srvVars, reloads, starts, faults, closed,
                   published, lastOutcome, internalErrors, received, uncaught>>

\* The forwarder relays the first part of the body: the response headers
\* are sent to the client.
Flush(i) ==
    /\ uncaught = 0
    /\ inflight[i].phase = "head"
    /\ inflight' = [inflight EXCEPT ![i].phase = "body"]
    /\ last' = Step
    /\ UNCHANGED <<appVars, loadVars, fsVars, optVars, srvVars, reloads, starts, faults, closed,
                   published, lastOutcome, proxyRequests, internalErrors, received,
                   uncaught>>

\* The forwarder has relayed the whole response.
Finish(i) ==
    /\ uncaught = 0
    /\ inflight[i].phase \in {"head", "body"}
    /\ inflight' = [inflight EXCEPT ![i] = NoRequest]
    /\ last' = Done(inflight[i], "end", FALSE, 0)
    /\ UNCHANGED <<appVars, loadVars, fsVars, optVars, srvVars, reloads, starts, faults, closed,
                   published, lastOutcome, proxyRequests, internalErrors, received,
                   uncaught>>

\* The 'error' callback: it logs, writes the 502 response and increments
\* the counter.  res.writeHead throws when the headers have been sent, and
\* nothing around the callback catches.
ProxyError(i) ==
    /\ uncaught = 0
    /\ inflight[i].phase \in {"sent", "head", "body"}
    /\ inflight' = [inflight EXCEPT ![i] = NoRequest]
    /\ IF inflight[i].phase = "body"
       THEN /\ uncaught' = uncaught + 1
            /\ last' = Done(inflight[i], "error", TRUE, 0)
            /\ UNCHANGED proxyRequests
       ELSE /\ proxyRequests' =
                  Inc(proxyRequests, [code |-> 502, resource |-> reqResource(inflight[i])])
            /\ last' = Done([inflight[i] EXCEPT
                                !.counted = Append(@, 502),
                                !.labelled = Append(@, reqResource(inflight[i]))],
                            "error", FALSE, 502)
            /\ UNCHANGED uncaught
    /\ UNCHANGED <<appVars, loadVars, fsVars, optVars, srvVars, reloads, starts, faults, closed,
                   published, lastOutcome, internalErrors, received>>

NextForward ==
    \/ Start
    \/ Tick
    \/ Touch
    \/ Receive
    \/ \E i \in 1..MaxInflight : ProxyRes(i)
    \/ \E i \in 1..MaxInflight : Flush(i)
    \/ \E i \in 1..MaxInflight : Finish(i)
    \/ \E i \in 1..MaxInflight : ProxyError(i)

SpecForward == Init /\ [][NextForward]_vars

----------------------------------------------------------------------------
(* Properties of request handling, checked under Spec *)

\* The last step handled a request with serve.
Served == last.op = "serve" /\ ~IsNull(routes)

Range(seq) == {seq[i] : i \in 1..Len(seq)}

\* The position of call c in a sequence of calls, 0 when it was not made.
Position(calls, c) ==
    IF c \in Range(calls) THEN CHOOSE i \in 1..Len(calls) : calls[i] = c ELSE 0

Forwarded(out) == "web" \in Range(out.calls)

\* The string the host patterns are tested against: '' without a Host header.
HostString(host) == IF host = <<>> THEN <<>> ELSE host[1]

\* route satisfies the three conditions of the route matcher.
RouteSatisfies(route, method, path, hostString) ==
    /\ "methods" \in DOMAIN route => method \in Range(route.methods)
    /\ "hosts" \in DOMAIN route =>
           \E k \in 1..Len(route.hosts) : RegExpTest(route.hosts[k], hostString)
    /\ RegExpTest(route.path, path)

\* The routes of the published list that satisfy the request.
Satisfying(req) ==
    {i \in 1..Len(routes.v) :
        RouteSatisfies(routes.v[i], req.method, req.url, HostString(HostOf(req)))}

IsAnonymous(route) == "anonymous" \in DOMAIN route /\ route.anonymous

\* C1: serve hands a request to the forwarder only if the matched route is
\* anonymous, or authenticate returned a user and authorize returned true
\* for that user, the route's resource and the method; authenticate is
\* called before authorize and authorize before the forwarder.
C1_ForwardOnlyIfAllowed ==
    Served =>
        LET req == last.req
            out == last.out
            info == getRoute(req.method, req.url, HostOf(req))
        IN  /\ Forwarded(out) =>
                /\ info.found
                /\ \/ IsAnonymous(info.route)
                   \/ /\ Truthy(authenticate(req))
                      /\ authorize(authenticate(req), info.route.resource, req.method)
                      /\ 0 < Position(out.calls, "authenticate")
                      /\ Position(out.calls, "authenticate") < Position(out.calls, "authorize")
                      /\ Position(out.calls, "authorize") < Position(out.calls, "web")
            /\ "authorize" \in Range(out.calls) =>
                /\ 0 < Position(out.calls, "authenticate")
                /\ Position(out.calls, "authenticate") < Position(out.calls, "authorize")

\* A request of an authorized user was forwarded on a route that is not
\* anonymous.
C1_Witness ==
    /\ Served
    /\ last.out.calls = <<"getRoute", "authenticate", "authorize", "web">>
    /\ last.out.user = "john"

\* C2: a request that no route of the list satisfies is answered 404 and is
\* neither authenticated nor authorized nor forwarded.
C2_NoRoute404 ==
    (Served /\ Satisfying(last.req) = {}) =>
        /\ last.out.status = 404
        /\ last.out.calls = <<"getRoute">>

\* HEAD / without a token, every route whose path matches excluding HEAD.
C2_Witness ==
    /\ Served
    /\ last.req.method = "HEAD" /\ last.req.url = <<"/">>
    /\ DOMAIN last.req.headers = {}
    /\ \E i \in 1..Len(routes.v) :
          RegExpTest(routes.v[i].path, last.req.url) /\ "methods" \in DOMAIN routes.v[i]
    /\ last.out.status = 404

\* C4: on a matched route that is not anonymous, a request whose token
\* resolves to a user whom authorize denies the route's resource under the
\* request method is answered 403 and not forwarded.
C4_Denied403 ==
    Served =>
        LET req == last.req
            info == getRoute(req.method, req.url, HostOf(req))
        IN  (/\ info.found /\ ~IsAnonymous(info.route)
             /\ Truthy(authenticate(req))
             /\ ~authorize(authenticate(req), info.route.resource, req.method))
            => /\ last.out.status = 403
               /\ ~Forwarded(last.out)
               /\ last.out.calls = <<"getRoute", "authenticate", "authorize">>

\* john, granted api for GET only, sends PUT /.
C4_Witness ==
    /\ Served
    /\ last.req.method = "PUT" /\ last.out.user = "john"
    /\ last.out.resource = "api"
    /\ ~IsNull(roles) /\ roles.v = BaseRoles
    /\ last.out.status = 403

\* C8: a request whose matched route is anonymous is forwarded to the
\* route's target whatever auth headers it carries, and neither
\* authenticate nor authorize is called for it.
C8_AnonymousForwarded ==
    Served =>
        LET req == last.req
            sat == Satisfying(req)
        IN  (sat # {} /\ IsAnonymous(routes.v[Min(sat)]))
            => /\ last.out.calls = <<"getRoute", "web">>
               /\ last.out.status = 0
               /\ last.out.user = "anonymous"
               /\ last.out.target = routes.v[Min(sat)].proxy.target

\* /public requested with a token nobody has.
C8_Witness ==
    /\ Served
    /\ authHeaders[1] \in DOMAIN last.req.headers
    /\ last.req.headers[authHeaders[1]] = "zz"
    /\ ~IsNull(tokenIndex) /\ "zz" \notin DOMAIN tokenIndex.v
    /\ last.out.resource = "public"
    /\ Forwarded(last.out)

\* The configured auth headers the request carries, as positions in
\* authHeaders.
PresentHeaders(req) == {i \in 1..Len(authHeaders) : authHeaders[i] \in DOMAIN req.headers}

\* The user the tokens document gives a token, Undefined when it lists no
\* such token.
TokenUser(value) ==
    IF \E i \in 1..Len(tokens.v) : tokens.v[i].token = value
    THEN tokens.v[CHOOSE i \in 1..Len(tokens.v) : tokens.v[i].token = value].user
    ELSE Undefined

\* What the first present auth header decides: nothing when it is missing
\* or empty, else the user of its value in the tokens document.
FirstHeaderUser(req) ==
    IF PresentHeaders(req) = {} THEN Undefined
    ELSE LET value == req.headers[authHeaders[Min(PresentHeaders(req))]]
         IN  IF value = "" THEN Undefined ELSE TokenUser(value)

\* C3: on a matched route that is not anonymous, a request is answered 401
\* and not forwarded when no configured auth header is present, when the
\* first present one is empty, or when its value is no token of the tokens
\* document.
C3_Unauthenticated401 ==
    Served =>
        LET req == last.req
            sat == Satisfying(req)
        IN  (/\ sat # {} /\ ~IsAnonymous(routes.v[Min(sat)])
             /\ FirstHeaderUser(req) = Undefined)
            => /\ last.out.status = 401
               /\ ~Forwarded(last.out)

\* C5: authenticate returns what the first present header of authHeaders
\* decides and nothing else: unauthenticated when none is present, when it
\* is empty or when its value is unknown, else the user of that token; later
\* headers play no part.
C5_FirstHeaderDecides ==
    (Served /\ "authenticate" \in Range(last.out.calls)) =>
        last.out.user = FirstHeaderUser(last.req)

----------------------------------------------------------------------------
(* Properties of authorize, checked under SpecAuthz *)

Authorized == last.op = "authorize"

\* The user is declared with admin true.
DeclaredAdmin(user) == user \in DOMAIN userIndex.v /\ IsAdmin(userIndex.v[user])

\* C6: authorize over the built indices returns true exactly when the user
\* is admin, or a role named in the user's roles exists and has a grant on
\* the resource whose methods are absent or contain the method: the result
\* of scanning the user's roles and grants.
C6_IndexEqualsScan ==
    Authorized =>
        last.result = (\/ DeclaredAdmin(last.user)
                       \/ authorizeByScan(last.user, last.resource, last.method))

\* C7: a user declared with admin true is authorized for every resource and
\* method.
C7_AdminAllowed ==
    (Authorized /\ DeclaredAdmin(last.user)) => last.result

\* An admin without any grant on the resource was authorized.
C7_Witness ==
    /\ Authorized /\ DeclaredAdmin(last.user)
    /\ last.user \notin DOMAIN grantIndex.v
    /\ "roles" \in DOMAIN userIndex.v[last.user]
    /\ ~authorizeByScan(last.user, last.resource, last.method)
    /\ last.result

----------------------------------------------------------------------------
(* Properties of getRoute, checked under SpecRoute *)

Routed == last.op = "getRoute"

\* The routes of the list that satisfy the call observed in last.
SatisfyingCall ==
    {i \in 1..Len(routes.v) :
        RouteSatisfies(routes.v[i], last.method, last.path, HostString(last.host))}

\* C9: getRoute returns the first route in declared order whose methods are
\* absent or contain the method, whose hosts are absent or have a pattern
\* matching the host, and whose path pattern matches the path; it returns
\* nothing exactly when no route satisfies the three.
C9_FirstSatisfyingRoute ==
    Routed =>
        IF SatisfyingCall = {} THEN ~last.result.found
        ELSE /\ last.result.found
             /\ last.result.index = Min(SatisfyingCall)
             /\ last.result.route = routes.v[Min(SatisfyingCall)]

\* Two different routes satisfy the call and the earlier one is returned.
C9_Witness ==
    /\ Routed
    /\ SatisfyingCall = {1, 2}
    /\ routes.v[1] # routes.v[2]
    /\ last.result.found /\ last.result.index = 1

\* Route i is passed over because none of its host patterns matches.
SkippedForHosts(i) ==
    /\ "methods" \in DOMAIN routes.v[i] => last.method \in Range(routes.v[i].methods)
    /\ "hosts" \in DOMAIN routes.v[i]
    /\ \A k \in 1..Len(routes.v[i].hosts) :
           ~RegExpTest(routes.v[i].hosts[k], HostString(last.host))

\* C10: a route with hosts is returned only when one of its host patterns
\* matches the Host header, the empty string standing for a missing header;
\* a route passed over for its hosts does not end the matching.
C10_HostsGate ==
    Routed =>
        /\ \A i \in 1..Len(routes.v) :
              (last.result.found /\ last.result.index = i /\ "hosts" \in DOMAIN routes.v[i])
              => \E k \in 1..Len(routes.v[i].hosts) :
                     RegExpTest(routes.v[i].hosts[k], HostString(last.host))
        /\ \A i \in 1..Len(routes.v) : SkippedForHosts(i) =>
              /\ ~(last.result.found /\ last.result.index = i)
              /\ (\E j \in (i + 1)..Len(routes.v) : j \in SatisfyingCall) => last.result.found

\* No Host header: the first route is passed over for its hosts, the second
\* one, whose host pattern matches the empty string, is returned.
C10_Witness ==
    /\ Routed
    /\ last.host = <<>>
    /\ Len(routes.v) >= 2
    /\ SkippedForHosts(1)
    /\ RegExpTest(routes.v[1].path, last.path)
    /\ "hosts" \in DOMAIN routes.v[2]
    /\ last.result.found /\ last.result.index = 2

----------------------------------------------------------------------------
(* Properties of the index builders, checked under SpecIndex *)

Indexed == last.op = "index"

\* The key of a record: the token string, the user name, the role name.
KeyOf(kind, record) == IF kind = "token" THEN record.token ELSE record.name

\* What the index maps the key of a record to.
EntryOf(kind, record) == IF kind = "token" THEN record.user ELSE record

\* Two records of the list share their key.
HasDuplicate(kind, list) ==
    \E i, j \in 1..Len(list) : i # j /\ KeyOf(kind, list[i]) = KeyOf(kind, list[j])

\* C11: an index builder fails with a ConfigError exactly when two records
\* of its list share their key; otherwise it returns an index whose keys are
\* the records' keys, each mapped to the user name of its record (tokens) or
\* to the record (users, roles).
C11_IndexOrDuplicate ==
    Indexed =>
        IF HasDuplicate(last.kind, last.list)
        THEN last.result = Throw("ConfigError")
        ELSE /\ last.result.ok
             /\ DOMAIN last.result.value =
                    {KeyOf(last.kind, last.list[i]) : i \in 1..Len(last.list)}
             /\ \A i \in 1..Len(last.list) :
                    last.result.value[KeyOf(last.kind, last.list[i])]
                        = EntryOf(last.kind, last.list[i])

----------------------------------------------------------------------------
(* Properties of the reloader, checked under SpecReload *)

Requested == last.op = "request"

ReloadEnded == last.op = "reloadEnd"

\* C12: the routes, the token index, the user index and the grant index one
\* request reads are those of one publication (or all as the constructor
\* left them): never routes of one reload with an index of another.
C12_OneSnapshot ==
    Requested =>
        last.read = [routes |-> published.routes, tokenIndex |-> published.tokenIndex,
                     userIndex |-> published.userIndex, grantIndex |-> published.grantIndex]

\* A request handled after a second publication (the rewritten tokens),
\* while another reload is between two of its reads.
C12_Witness ==
    /\ Requested
    /\ published.tokens = Some(MoreTokens)
    /\ last.read.routes = Some(BaseRoutes)
    /\ \E i \in 1..MaxReloads : reloads[i].pc = "read" /\ Len(reloads[i].docs) >= 1

\* How a reload attempt that failed ends: error logged, error rethrown,
\* fs.open rejected.
Failures == {"logged", "rejected", "openRejected"}

\* C13: a reload attempt that fails leaves routes, users, roles, tokens and
\* the four indices as they were; the fields change only in the step that
\* ends a successful attempt, which assigns all of them.
C13_FailedReloadKeepsSnapshot ==
    [][/\ (last'.op = "reloadEnd" /\ last'.outcome \in Failures) => appVars' = appVars
       /\ appVars' # appVars =>
             /\ last'.op = "reloadEnd" /\ last'.outcome = "published"
             /\ Current' = published']_vars

\* After a successful reload the users file was rewritten with a record
\* that makes the grant index fail: the attempt read all four documents,
\* built three indices, failed, was logged, and the first snapshot stays.
C13_Witness ==
    /\ ReloadEnded /\ last.outcome = "logged" /\ last.parsed = Len(FileOrder)
    /\ files.users = [users |-> NoRolesUsers]
    /\ ~IsNull(userIndex) /\ users = Some(BaseUsers)
    /\ Current = published

\* No snapshot was ever published.
NoSnapshotYet == published = NoSnapshot

\* C14: while no snapshot has been published, a reload attempt that fails
\* rejects to its caller, and a start() whose load ends without a snapshot
\* neither arms the timer nor makes a server listen, a start() that follows
\* a failed start() included.
C14_FatalInitialLoad ==
    /\ (ReloadEnded /\ NoSnapshotYet) =>
           /\ last.outcome \in {"rejected", "openRejected"}
           /\ ~last.resumed
    /\ NoSnapshotYet => (timers = 0 /\ ~listening /\ ~metricsListening)

\* C15: whenever the proxy server is listening, routes, tokenIndex,
\* userIndex and grantIndex are not null.
C15_ListeningHasSnapshot ==
    listening =>
        /\ ~IsNull(routes) /\ ~IsNull(tokenIndex)
        /\ ~IsNull(userIndex) /\ ~IsNull(grantIndex)

\* C16: after a reload attempt that had passed the mtime gate failed and
\* was logged, the attempt of the next tick loads again (parses, validates,
\* builds): it does not end at the gate as unchanged.
C16_RetryAfterFailure ==
    (/\ ReloadEnded /\ last.caller = "tick"
     /\ last.prev.outcome = "logged" /\ last.prev.found # -1)
    => last.outcome # "unchanged"

\* The greatest mtime of the four files.
LatestMTime == Max({mtimes[f] : f \in FileNames})

\* No call of reloadConfig is in progress.
NoReloadRunning == \A i \in 1..MaxReloads : reloads[i] = Idle

\* Every tick from here on ends at the mtime gate, until a file changes.
TicksSkip == timers > 0 /\ NoReloadRunning /\ lastReloadMTime = LatestMTime

\* C17: with the timer armed, a file rewritten so that the four files hold a
\* valid configuration is published by a later tick.  Refuted by a state in
\* which every later tick ends at the gate while the published snapshot is
\* not the one built from the files.
C17_ChangePublished ==
    (TicksSkip /\ LatestMTime > 1 /\ loadConfig(files).ok)
    => Current = SnapshotOf(loadConfig(files).value)

\* C18: a reload attempt whose stats give the max(mtime) that the previous
\* attempt recorded ends there: it parses nothing and leaves routes, users,
\* roles, tokens, the four indices and lastReloadMTime as they were.
C18_UnchangedIsNoop ==
    [][(last'.op = "reloadEnd" /\ last'.found # 0 /\ last'.found = last'.maxMTime)
       => /\ last'.outcome = "unchanged"
          /\ last'.parsed = 0
          /\ UNCHANGED <<appVars, lastReloadMTime>>]_vars

\* A tick right after a reload that published, no file changed in between:
\* its attempt ended at the gate.
C18_Witness ==
    /\ ReloadEnded /\ last.caller = "tick"
    /\ last.outcome = "unchanged" /\ last.prev.outcome = "published"
    /\ last.found = LatestMTime
    /\ Current = published /\ ~IsNull(routes)

----------------------------------------------------------------------------
(* Properties of the load, checked under SpecAuthz *)

\* A user record that is not admin and has no roles field.
NoRolesUser(user) == "roles" \notin DOMAIN user /\ ~IsAdmin(user)

\* C19: a configuration with a non-admin user record that has no roles
\* field loads as if the record had an empty roles list: start() succeeds,
\* the indices are published, and authorize denies that user everything.
C19_NoRolesIsEmptyRoles ==
    (/\ startState # "new"
     /\ \E k \in 1..Len(files.users.users) : NoRolesUser(files.users.users[k]))
    => /\ startState = "started"
       /\ ~IsNull(userIndex) /\ ~IsNull(grantIndex)
       /\ \A k \in 1..Len(files.users.users) :
             (/\ NoRolesUser(files.users.users[k])
              /\ Authorized /\ last.user = files.users.users[k].name)
             => ~last.result

----------------------------------------------------------------------------
(* Properties of close(), checked under SpecReload *)

\* C20: once close() has been called (and start() not again since), no
\* interval timer is armed, so that no tick starts a reload, and neither the
\* proxy server nor the metrics server is listening; also when close() is
\* called while start() awaits its initial load.
C20_ClosedStaysClosed ==
    closed => (timers = 0 /\ ~listening /\ ~metricsListening)

----------------------------------------------------------------------------
(* Properties of a reload attempt, checked under SpecReload *)

\* The slots holding a call of reloadConfig that has not ended.
InProgress == {i \in 1..MaxReloads : reloads[i] # Idle}

\* C26: at most one call of reloadConfig is in progress at any time (so no
\* call a tick started runs beside another one), and a timer is armed only
\* after a load has finished.
C26_OneReloadAtATime ==
    /\ Cardinality(InProgress) <= 1
    /\ timers > 0 => lastReloadTime # 0

\* C27: when a reload attempt has ended, however it ended, isReloading is
\* false.
C27_FlagClearedAtEnd ==
    ReloadEnded => ~isReloading

\* C28: a reload attempt that has ended has left none of the file handles
\* it opened open.
C28_HandlesClosed ==
    ReloadEnded => last.handles = 0

\* C29: with a snapshot published, an attempt started by a tick that does
\* not publish and does not end at the gate is logged, its promise is not
\* rejected, and the eight fields are still those of the last publication.
C29_PeriodicFailureLogged ==
    (/\ ReloadEnded /\ last.caller = "tick" /\ published # NoSnapshot
     /\ last.outcome \notin {"published", "unchanged"})
    => (last.outcome = "logged" /\ Current = published)

\* C30: when a reload attempt has published, lastReloadMTime is the
\* greatest mtime the four files have at that moment.
C30_MTimeAtPublication ==
    (ReloadEnded /\ last.outcome = "published") => lastReloadMTime = LatestMTime

----------------------------------------------------------------------------
(* Properties of the options, checked under SpecDefaults *)

\* C25: the metrics port of the options is the number METRICS_PORT spells
\* when it is set, and 8181 when it is not.
C25_MetricsPort ==
    (last.op = "defaults") =>
        last.opts.metricsPort =
            (IF "METRICS_PORT" \in DOMAIN last.env
             THEN StringToNumberFrom(last.env.METRICS_PORT, 1, 0)
             ELSE DefaultMetricsPort)

----------------------------------------------------------------------------
(* Properties of the validators, checked under SpecValidate *)

\* A record was validated.
Validated(kind) == last.op = "validate" /\ last.kind = kind

\* The record has the field.
Present(record, key) == key \in DOMAIN record.object

IsNonEmptyString(v) == "string" \in DOMAIN v /\ Len(v.string) > 0

\* A mapping: not null, not an array, not a scalar.
IsMapping(v) == "object" \in DOMAIN v

\* The string is the source of a regular expression.
Compilable(v) == RegExpCompile(v.string).ok

\* The route breaks one of the rules of the claim.
RouteViolation(route) ==
    \/ ~Present(route, "path")
    \/ ~IsNonEmptyString(route.object.path)
    \/ ~Compilable(route.object.path)
    \/ ~Present(route, "proxy")
    \/ ~IsMapping(route.object.proxy)
    \/ ~Present(route.object.proxy, "target")
    \/ ~IsNonEmptyString(route.object.proxy.object.target)
    \/ /\ Present(route, "hosts")
       /\ \/ ~IsArray(route.object.hosts)
          \/ \E k \in 1..Len(route.object.hosts.array) :
                \/ ~IsNonEmptyString(route.object.hosts.array[k])
                \/ ~Compilable(route.object.hosts.array[k])

\* C23: validateRoute throws a ConfigError for a route whose path is
\* missing, not a string, empty or not compilable, whose proxy is missing or
\* not a mapping, whose proxy.target is missing, not a string or empty,
\* whose hosts is present and not an array, or has an element that is not a
\* non-empty compilable string; it returns for every other route.
C23_ValidateRoute ==
    Validated("route") =>
        IF RouteViolation(last.record)
        THEN last.result = Throw("ConfigError")
        ELSE last.result.ok

TokenValid(token) ==
    /\ Present(token, "token") /\ IsNonEmptyString(token.object.token)
    /\ Present(token, "user") /\ IsNonEmptyString(token.object.user)

UserValid(user) ==
    /\ Present(user, "name") /\ IsNonEmptyString(user.object.name)
    /\ Present(user, "roles") =>
           /\ IsArray(user.object.roles)
           /\ \A k \in 1..Len(user.object.roles.array) :
                 IsNonEmptyString(user.object.roles.array[k])
    /\ Present(user, "admin") => "boolean" \in DOMAIN user.object.admin

GrantValid(grant) ==
    /\ Present(grant, "resource") /\ IsNonEmptyString(grant.object.resource)
    /\ Present(grant, "methods") => IsArray(grant.object.methods)

RoleValid(role) ==
    /\ Present(role, "name") /\ IsNonEmptyString(role.object.name)
    /\ Present(role, "grants") /\ IsArray(role.object.grants)
    /\ \A k \in 1..Len(role.object.grants.array) : GrantValid(role.object.grants.array[k])

\* C24: validateToken, validateUser and validateRole return for the records
\* that follow the rules (token and user non-empty strings; name a
\* non-empty string, roles if present an array of non-empty strings, admin
\* if present a boolean; name a non-empty string, grants an array of grants
\* with a non-empty string resource and, if present, an array methods) and
\* throw a ConfigError for every other record.
C24_ValidateRecords ==
    /\ Validated("token") =>
          IF TokenValid(last.record) THEN last.result.ok
          ELSE last.result = Throw("ConfigError")
    /\ Validated("user") =>
          IF UserValid(last.record) THEN last.result.ok
          ELSE last.result = Throw("ConfigError")
    /\ Validated("role") =>
          IF RoleValid(last.record) THEN last.result.ok
          ELSE last.result = Throw("ConfigError")

----------------------------------------------------------------------------
(* Properties of the counters and of the error handling, checked under     *)
(* SpecForward                                                              *)

\* C21: a forwarded request the forwarder is done with has incremented
\* proxy_requests_total once, with code 302 or with code 502; when the
\* forwarder reported an error it is code 502 and the response is 502; a
\* request answered 401, 403 or 404 has incremented the counter of that
\* code and no other.
C21_OneCounterPerRequest ==
    /\ last.op = "done" => last.counted \in {<<302>>, <<502>>}
    /\ (last.op = "done" /\ last.event = "error") =>
           (last.counted = <<502>> /\ last.status = 502)
    /\ (last.op = "receive" /\ last.status \in {401, 403, 404}) =>
           last.counted = <<last.status>>

\* C22: whenever serve or a callback of the forwarder throws, the 500
\* response is written (or writing it failed and was logged),
\* internal_errors_total is incremented by one and no exception is left
\* uncaught.
C22_ExceptionsAnswered500 ==
    [][(last'.op \in {"receive", "done"} /\ last'.thrown /\ last' # last)
       => /\ last'.status = 500 \/ last'.writeFailed
          /\ internalErrors' = internalErrors + 1
          /\ uncaught' = uncaught]_vars

----------------------------------------------------------------------------
(* Properties of requests in flight while the configuration is reloaded,   *)
(* checked under SpecForward                                                *)

\* The request record r was forwarded to the target of the route matched
\* when it came in, and every counter incremented for it was labelled with
\* that route's resource.
KeepsEntryRoute(r) ==
    /\ r.target = r.route.proxy.target
    /\ \A k \in 1..Len(r.labelled) : r.labelled[k] = r.route.resource

\* C31: a request in flight is not affected by a reload that publishes
\* while it is forwarded: the target it is forwarded to and the resource
\* label of its 302 or 502 counter are those of the route matched when the
\* request came in.
C31_InflightKeepsRoute ==
    /\ \A i \in 1..MaxInflight : inflight[i] # NoRequest => KeepsEntryRoute(inflight[i])
    /\ last.op = "done" => KeepsEntryRoute(last)

\* A request counted 502 after a reload published routes under which it
\* would match a route of another resource.
C31_Witness ==
    /\ last.op = "done"
    /\ last.status = 502
    /\ ~IsNull(routes)
    /\ reqResourceNow(last) # last.route.resource
    /\ \E l \in DOMAIN proxyRequests : l = [code |-> 502, resource |-> last.route.resource]

----------------------------------------------------------------------------
(* Properties of the fields request handling reads, checked under Spec *)

\* The users, resources and methods authorize is asked about: the declared
\* users, an undeclared one and an inherited key.
FrameUsers == {"john", "bob", "george", "alice", "jeff", "constructor"}
FrameResources == {"api", "public", "george"}

\* C32: handling a request (getRoute, authenticate, authorize, serve)
\* changes none of routes, tokenIndex, userIndex, roleIndex, grantIndex,
\* lastReloadMTime and isReloading, so authorize returns after the request
\* what it returned before it, for every user, resource and method.
C32_RequestsWriteNothing ==
    [][last'.op = "serve" =>
          /\ UNCHANGED <<routes, tokenIndex, userIndex, roleIndex, grantIndex,
                         lastReloadMTime, isReloading>>
          /\ \A u \in FrameUsers, r \in FrameResources, m \in Methods :
                 authorize(u, r, m)' = authorize(u, r, m)]_vars

\* A request of a user with grants was authenticated, authorized and
\* forwarded after a reload.
C32_Witness ==
    /\ last.op = "serve"
    /\ last.out.calls = <<"getRoute", "authenticate", "authorize", "web">>
    /\ last.out.user = "john"
    /\ lastReloadMTime > 1
    /\ authorize("john", "api", "GET")

----------------------------------------------------------------------------
(* Properties of the errors of the load, checked under SpecLoad *)

\* The last step loaded drawn documents and the load threw.
LoadFailed == last.op = "load" /\ ~last.result.ok

\* C33: a reload aborted because a document is malformed (an empty
\* document, a missing top-level key, a record or a nested field that is
\* null or of the wrong type, a record violating a rule of the data model)
\* fails with a ConfigError and with no error of another kind.
C33_MalformedIsConfigError ==
    LoadFailed => last.result.error = "ConfigError"

----------------------------------------------------------------------------
(* Properties of the grant index, checked under SpecAuthz *)

\* The names of the roles of the roles document.
DeclaredRoles == {files.roles.roles[i].name : i \in 1..Len(files.roles.roles)}

\* The elements of list that are in set S, in order.
RECURSIVE Keep(_, _)
Keep(list, S) ==
    IF list = <<>> THEN <<>>
    ELSE (IF Head(list) \in S THEN <<Head(list)>> ELSE <<>>) \o Keep(Tail(list), S)

\* The files with the role names that name no role removed from the roles
\* of the drawn user.
WithoutUnknownRoles ==
    [files EXCEPT !.users.users[1].roles = Keep(@, DeclaredRoles)]

\* The drawn user lists a role name that names no role of the roles
\* document, and start() has loaded the configuration or failed to.
ListsUnknownRole ==
    /\ startState # "new"
    /\ "roles" \in DOMAIN files.users.users[1]
    /\ \E i \in 1..Len(files.users.users[1].roles) :
          files.users.users[1].roles[i] \notin DeclaredRoles

\* C34: a role name in a user's roles that names no role of the roles
\* document causes no error and contributes no grants: the configuration
\* loads, and the grant index is the one obtained with the name removed.
C34_UnknownRoleIgnored ==
    ListsUnknownRole =>
        \E without \in {loadConfig(WithoutUnknownRoles)} :
            without.ok =>
                /\ startState = "started"
                /\ grantIndex = Some(without.value.grantIndex)

----------------------------------------------------------------------------
(* Properties of the grant index as a union, checked under SpecGrants *)

\* The edits that add a role or a grant.
Additions == {"addRole", "addGrant"}

\* The drawn user has, through a declared role, a grant on resource
\* without methods.
HasWildcard(resource) ==
    \E i \in 1..Len(users.v[1].roles) : \E k \in 1..Len(roles.v) :
        /\ roles.v[k].name = users.v[1].roles[i]
        /\ \E j \in 1..Len(roles.v[k].grants) :
              /\ roles.v[k].grants[j].resource = resource
              /\ "methods" \notin DOMAIN roles.v[k].grants[j]

\* C35: the grant index of a user is the union of the grants of the user's
\* roles.  Once reloaded, a configuration in which the user's roles or the
\* grants of a role were permuted, a role was listed twice or a grant
\* written twice gives every authorize result it gave before; one in which
\* a role or a grant was added allows what was allowed before; and a grant
\* without methods on a resource allows every method on it, whatever other
\* grants on the resource there are.
C35_GrantIndexIsUnion ==
    /\ [][(last.op = "edit" /\ last'.op = "tick") =>
             \A p \in DOMAIN last.before :
                IF last.kinds \cap Additions # {}
                THEN last.before[p] => authorize("u", p[1], p[2])'
                ELSE authorize("u", p[1], p[2])' = last.before[p]]_vars
    /\ [](~IsNull(grantIndex) =>
             \A resource \in {"api", "other"} :
                HasWildcard(resource) =>
                    \A method \in Methods : authorize("u", resource, method))

\* An edited configuration was reloaded in which a role of the user grants
\* api without methods and api for GET, and another role comes before it.
C35_Witness ==
    /\ last.op = "tick"
    /\ lastReloadMTime = 2
    /\ users.v[1].roles = <<"r2", "r1">>
    /\ roles.v[1].grants = <<[resource |-> "api", methods |-> <<"GET">>], [resource |-> "api"]>>
    /\ authorize("u", "api", "PUT")
    /\ ~authorize("u", "other", "PUT")

----------------------------------------------------------------------------
(* Properties of the reload timer, checked under SpecInterval *)

\* C36: start() always performs the initial load; having loaded, it arms
\* the reload timer exactly when reloadIntervalMs is greater than 0, and
\* then with the interval max(reloadIntervalMs, 1000); with
\* reloadIntervalMs equal to 0 no periodic reload ever runs.
C36_TimerInterval ==
    /\ startState # "new" => lastReloadTime # 0
    /\ startState = "started" => (timers > 0 <=> MsLess(Ms(0), opts.reloadIntervalMs))
    /\ (last.op = "start" /\ last.delay # <<>>) =>
           last.delay[1] = MathMax(opts.reloadIntervalMs, Ms(1000))
    /\ opts.reloadIntervalMs = Ms(0) => last.op # "tick"

\* ---------------------------------------------------------------------
\* C37
\* ---------------------------------------------------------------------

\* The names the users document declares.
DeclaredUsers == {users.v[i].name : i \in 1..Len(users.v)}

\* C37: when the first present auth header of a request carries a token
\* whose user is not declared in the users document, and the request
\* matches a route that is not anonymous, authenticate returns that user
\* name, authorize denies the name for every resource and every method,
\* and the request is answered 403 without being forwarded.
C37_UndeclaredUserDenied ==
    Served =>
        LET req == last.req
            info == getRoute(req.method, req.url, HostOf(req))
            name == FirstHeaderUser(req)
        IN  (/\ info.found
             /\ ~IsAnonymous(info.route)
             /\ Truthy(name)
             /\ name \notin DeclaredUsers)
            => /\ authenticate(req) = name
               /\ last.out.user = name
               /\ \A resource \in FrameResources \cup {info.route.resource} :
                      \A method \in Methods : ~authorize(name, resource, method)
               /\ last.out.status = 403
               /\ ~Forwarded(last.out)

\* The token of the undeclared user jeff was presented on a route that is
\* not anonymous and the request was answered 403.
C37_Witness ==
    /\ Served
    /\ FirstHeaderUser(last.req) = "jeff"
    /\ "jeff" \notin DeclaredUsers
    /\ LET info == getRoute(last.req.method, last.req.url, HostOf(last.req))
       IN  info.found /\ ~IsAnonymous(info.route)
    /\ last.out.user = "jeff"
    /\ last.out.status = 403
    /\ ~Forwarded(last.out)

====
